---------------------------- MODULE Spec2Model ----------------------------
(***************************************************************************)
(* A model of the C++ quick-fix rules of the code editor plugin           *)
(* (cppquickfixes.cpp, kept as src/unnamed/part_000).                      *)
(*                                                                         *)
(* Every rule is a function doMatch(interface, result): it reads the       *)
(* ancestor path of the AST node under the cursor and appends zero or more *)
(* operations to result.  Each rule is modelled by one action that takes   *)
(* an input (a syntax tree, a cursor or selection) drawn by Init and       *)
(* stores the list of operations the rule appends.                         *)
(*                                                                         *)
(* Source text is a row of tokens.  Token k starts at position 3k and ends *)
(* at position 3k+1; position 3k+2 is the white space after it.            *)
(***************************************************************************)
EXTENDS Integers, Sequences, FiniteSets, TLC

VARIABLES
    siInput,     \* SplitIfStatement: the if statement and the cursor
    siPc,        \* SplitIfStatement: "input" | "matched" | "performed"
    siResult,    \* SplitIfStatement: the QuickFixOperations appended
    siChanges,   \* SplitIfStatement: the ChangeSet perform() built
    abInput,     \* AddBracesToControlStatement: the statement and the cursor
    abPc,        \* AddBracesToControlStatement: "input" | "matched" | "performed"
    abResult,    \* AddBracesToControlStatement: the QuickFixOperations appended
    abChanges,   \* AddBracesToControlStatement: the ChangeSet perform() built
    nlInput,     \* ConvertNumericLiteral: the path and the literal token under the cursor
    nlPc,        \* ConvertNumericLiteral: "input" | "matched"
    nlValue,     \* ConvertNumericLiteral: the local `value` of the last doMatch, -1 before it is set
    nlResult,    \* ConvertNumericLiteral: the QuickFixOperations appended
    nlHistory,   \* ConvertNumericLiteral: the first literal and the conversions performed on it
    efInput,     \* ExtractFunction: the reference function and the selection
    efPc,        \* ExtractFunction: "input" | "matched" | "performed"
    efAnalyser,  \* ExtractFunction: the fields of the FunctionExtractionAnalyser after its run
    efResult,    \* ExtractFunction: the QuickFixOperations appended
    efPerformed, \* ExtractFunction: the interface of the function perform() wrote
    dpContext,   \* dispatcher: the context all registered rules are matched against
    dpPc,        \* dispatcher: "matching" | "collected" | "presented"
    dpNext,      \* dispatcher: index in the registry of the next factory to invoke
    dpResult,    \* dispatcher: the QuickFixOperations appended so far
    dpPresented, \* dispatcher: the operations in the order they are presented
    sdInput,     \* SplitSimpleDeclaration: the text, the declaration, the path and the cursor
    sdPc,        \* SplitSimpleDeclaration: "input" | "matched" | "performed"
    sdResult,    \* SplitSimpleDeclaration: the QuickFixOperations appended
    sdChanges,   \* SplitSimpleDeclaration: the ChangeSet perform() built
    sdText,      \* SplitSimpleDeclaration: the text of the file after perform()
    mdInput,     \* MoveDeclarationOutOfIf/While: the rule, the text, the path and the cursor
    mdPc,        \* MoveDeclarationOutOfIf/While: "input" | "matched" | "performed"
    mdResult,    \* MoveDeclarationOutOfIf/While: the QuickFixOperations appended
    mdChanges,   \* MoveDeclarationOutOfIf/While: the ChangeSet perform() built
    swInput,     \* CompleteSwitchCaseStatement: the switch statement and the path
    swPc,        \* CompleteSwitchCaseStatement: "input" | "matched" | "performed"
    swResult,    \* CompleteSwitchCaseStatement: the QuickFixOperations appended
    swChanges,   \* CompleteSwitchCaseStatement: the ChangeSet perform() built
    elInput,     \* ExtractLiteralAsParameter: the path, the literal, the function and its declaration
    elPc,        \* ExtractLiteralAsParameter: "input" | "matched" | "performed"
    elResult,    \* ExtractLiteralAsParameter: the QuickFixOperations appended
    elChanges,   \* ExtractLiteralAsParameter: the ChangeSet perform() built for the current file
    elDeclChanges, \* ExtractLiteralAsParameter: the ChangeSet perform() built for the declaration's file
    csText,      \* ChangeSet: the text of the buffer
    csChanges,   \* ChangeSet: the primitives added to the set so far
    csPc,        \* ChangeSet: "building" | "applied"
    csBefore,    \* ChangeSet: the text of the buffer when apply() was called
    csOk,        \* ChangeSet: what apply() returned
    rpInput,     \* RearrangeParamDeclarationList: the parameter list and the cursor
    rpPc,        \* RearrangeParamDeclarationList: "input" | "matched" | "performed"
    rpResult,    \* RearrangeParamDeclarationList: the QuickFixOperations appended
    rpChanges,   \* RearrangeParamDeclarationList: the ChangeSet perform() built
    rpText,      \* RearrangeParamDeclarationList: the text of the file after perform()
    ccInput,     \* ConvertCommentStyle: the comment tokens and the selection
    ccPc,        \* ConvertCommentStyle: "input" | "matched" | "performed"
    ccResult,    \* ConvertCommentStyle: the QuickFixOperations appended
    ccChanges,   \* ConvertCommentStyle: the ChangeSet perform() built
    ccText,      \* ConvertCommentStyle: the text of the document after perform()
    rgRegistry,  \* registry: g_cppQuickFixFactories, the factories by their serial number
    rgCreated,   \* registry: the class of every factory constructed so far, by serial number
    rgDestroyed, \* registry: how often the destructor of each factory has run
    rgLast,      \* registry: the operation that ran last
    hlFormats,   \* highlighter: the format ranges of the layout of every block
    hlBefore,    \* highlighter: the format ranges before the last clearing call
    hlCleared,   \* highlighter: the block numbers the last clearing call was given
    hlPc,        \* highlighter: "formatted" | "cleared" | "clearedAll"
    cmActive,    \* CMakeBuildSystem: buildConfiguration()->isActive()
    cmState,     \* CMakeBuildSystem: m_waitingForParse, m_combinedScanAndParseResult, m_currentGuard, the reader, the tree scanner
    cmReparseParameters, \* CMakeBuildSystem: m_reparseParameters, the set of its flags
    cmRequested, \* CMakeBuildSystem: a requested parse waits for its timer
    cmDebuggable, \* CMakeBuildSystem: the CMake tool is version 3.27 or newer
    cmSince,     \* CMakeBuildSystem: the flags of the requests since the last parse run
    cmTaken,     \* CMakeBuildSystem: the flags requested before the last parse run
    cmHanded,    \* CMakeBuildSystem: the flags handed to the reader for the last parse run
    cmLast,      \* CMakeBuildSystem: the handler that ran last
    ctProcess,   \* ClangToolRunner: the state of m_process
    ctSignals,   \* ClangToolRunner: the completion signals emitted since the last run()
    ctErrors,    \* ClangToolRunner: the errors the process has reported since the last run()
    ctExit,      \* ClangToolRunner: the exit status and code of the last finished()
    ctRuns,      \* ClangToolRunner: the number of run() calls so far
    psMode,      \* ProcessStartHandler: m_processMode
    psWriteData, \* ProcessStartHandler: m_writeData
    psInitialData, \* ProcessStartHandler: the write data set before the start
    psLog,       \* ProcessStartHandler: the calls made on m_process, in order
    psCalls,     \* ProcessStartHandler: the handlers called so far, in order
    tpRunAll,    \* TestResultsPane: m_runAll is enabled
    tpRunSelected, \* TestResultsPane: m_runSelected is enabled
    tpStopTestRun, \* TestResultsPane: m_stopTestRun is enabled
    tpRunning,   \* TestResultsPane: a test run has started and not finished
    tpTests,     \* TestResultsPane: the number of tests of the test tree model
    tpStarted,   \* TestResultsPane: the number of test runs started so far
    tpChanges,   \* TestResultsPane: the changes of the test tree model since the last start or end of a run
    mrModel,     \* ModelResourceManagement: the nodes of the model, by internal id
    mrNode,      \* ModelResourceManagement: the node passed to removeNode
    mrResult     \* ModelResourceManagement: the resource set removeNode returned

siVars == <<siInput, siPc, siResult, siChanges>>
abVars == <<abInput, abPc, abResult, abChanges>>
nlVars == <<nlInput, nlPc, nlValue, nlResult, nlHistory>>
efVars == <<efInput, efPc, efAnalyser, efResult, efPerformed>>
dpVars == <<dpContext, dpPc, dpNext, dpResult, dpPresented>>
sdVars == <<sdInput, sdPc, sdResult, sdChanges, sdText>>
mdVars == <<mdInput, mdPc, mdResult, mdChanges>>
swVars == <<swInput, swPc, swResult, swChanges>>
elVars == <<elInput, elPc, elResult, elChanges, elDeclChanges>>
csVars == <<csText, csChanges, csPc, csBefore, csOk>>
rpVars == <<rpInput, rpPc, rpResult, rpChanges, rpText>>
ccVars == <<ccInput, ccPc, ccResult, ccChanges, ccText>>
rgVars == <<rgRegistry, rgCreated, rgDestroyed, rgLast>>
hlVars == <<hlFormats, hlBefore, hlCleared, hlPc>>
cmVars == <<cmActive, cmState, cmReparseParameters, cmRequested, cmDebuggable, cmSince, cmTaken, cmHanded, cmLast>>
ctVars == <<ctProcess, ctSignals, ctErrors, ctExit, ctRuns>>
psVars == <<psMode, psWriteData, psInitialData, psLog, psCalls>>
tpVars == <<tpRunAll, tpRunSelected, tpStopTestRun, tpRunning, tpTests, tpStarted, tpChanges>>
mrVars == <<mrModel, mrNode, mrResult>>
vars == <<siVars, abVars, nlVars, efVars, dpVars, sdVars, mdVars, swVars, elVars, csVars, rpVars, ccVars, rgVars, hlVars, cmVars, ctVars, psVars, tpVars, mrVars>>

\* A rule that is not the subject of a specification holds no input.
NoInput == [kind |-> "none"]
siIdle == siInput = NoInput /\ siPc = "idle" /\ siResult = <<>> /\ siChanges = <<>>
abIdle == abInput = NoInput /\ abPc = "idle" /\ abResult = <<>> /\ abChanges = <<>>
nlIdle ==
    nlInput = NoInput /\ nlPc = "idle" /\ nlValue = -1 /\ nlResult = <<>> /\ nlHistory = NoInput
efIdle ==
    /\ efInput = NoInput /\ efPc = "idle" /\ efAnalyser = NoInput
    /\ efResult = <<>> /\ efPerformed = NoInput
dpIdle ==
    /\ dpContext = NoInput /\ dpPc = "idle" /\ dpNext = 0
    /\ dpResult = <<>> /\ dpPresented = <<>>
sdIdle ==
    /\ sdInput = NoInput /\ sdPc = "idle" /\ sdResult = <<>>
    /\ sdChanges = <<>> /\ sdText = <<>>
mdIdle == mdInput = NoInput /\ mdPc = "idle" /\ mdResult = <<>> /\ mdChanges = <<>>
swIdle == swInput = NoInput /\ swPc = "idle" /\ swResult = <<>> /\ swChanges = <<>>
elIdle ==
    /\ elInput = NoInput /\ elPc = "idle" /\ elResult = <<>>
    /\ elChanges = <<>> /\ elDeclChanges = <<>>
csIdle ==
    /\ csText = <<>> /\ csChanges = <<>> /\ csPc = "idle"
    /\ csBefore = <<>> /\ csOk = FALSE
rpIdle ==
    /\ rpInput = NoInput /\ rpPc = "idle" /\ rpResult = <<>>
    /\ rpChanges = <<>> /\ rpText = <<>>
ccIdle ==
    ccInput = NoInput /\ ccPc = "idle" /\ ccResult = <<>> /\ ccChanges = <<>> /\ ccText = <<>>

rgIdle ==
    /\ rgRegistry = <<>>
    /\ rgCreated = <<>>
    /\ rgDestroyed = <<>>
    /\ rgLast = "idle"

hlIdle ==
    /\ hlFormats = <<>>
    /\ hlBefore = <<>>
    /\ hlCleared = <<>>
    /\ hlPc = "idle"

cmIdle ==
    /\ cmActive = FALSE
    /\ cmState = NoInput
    /\ cmReparseParameters = {}
    /\ cmRequested = FALSE
    /\ cmDebuggable = FALSE
    /\ cmSince = {}
    /\ cmTaken = {}
    /\ cmHanded = {}
    /\ cmLast = "idle"

ctIdle ==
    /\ ctProcess = "NotRunning"
    /\ ctSignals = <<>>
    /\ ctErrors = <<>>
    /\ ctExit = NoInput
    /\ ctRuns = 0

psIdle ==
    /\ psMode = "Reader"
    /\ psWriteData = <<>>
    /\ psInitialData = <<>>
    /\ psLog = <<>>
    /\ psCalls = <<>>

tpIdle ==
    /\ tpRunAll = TRUE
    /\ tpRunSelected = TRUE
    /\ tpStopTestRun = FALSE
    /\ tpRunning = FALSE
    /\ tpTests = 0
    /\ tpStarted = 0
    /\ tpChanges = 0

mrIdle ==
    /\ mrModel = <<>>
    /\ mrNode = 0
    /\ mrResult = NoInput

\* The variables of the other rules, and their idle state, rule by rule.
siOthers == <<abVars, nlVars, efVars, dpVars, sdVars, mdVars, swVars, elVars, csVars, rpVars, ccVars, rgVars, hlVars, cmVars, ctVars, psVars, tpVars, mrVars>>
siOthersIdle == abIdle /\ nlIdle /\ efIdle /\ dpIdle /\ sdIdle /\ mdIdle /\ swIdle /\ elIdle /\ csIdle /\ rpIdle /\ ccIdle /\ rgIdle /\ hlIdle /\ cmIdle /\ ctIdle /\ psIdle /\ tpIdle /\ mrIdle
abOthers == <<siVars, nlVars, efVars, dpVars, sdVars, mdVars, swVars, elVars, csVars, rpVars, ccVars, rgVars, hlVars, cmVars, ctVars, psVars, tpVars, mrVars>>
abOthersIdle == siIdle /\ nlIdle /\ efIdle /\ dpIdle /\ sdIdle /\ mdIdle /\ swIdle /\ elIdle /\ csIdle /\ rpIdle /\ ccIdle /\ rgIdle /\ hlIdle /\ cmIdle /\ ctIdle /\ psIdle /\ tpIdle /\ mrIdle
nlOthers == <<siVars, abVars, efVars, dpVars, sdVars, mdVars, swVars, elVars, csVars, rpVars, ccVars, rgVars, hlVars, cmVars, ctVars, psVars, tpVars, mrVars>>
nlOthersIdle == siIdle /\ abIdle /\ efIdle /\ dpIdle /\ sdIdle /\ mdIdle /\ swIdle /\ elIdle /\ csIdle /\ rpIdle /\ ccIdle /\ rgIdle /\ hlIdle /\ cmIdle /\ ctIdle /\ psIdle /\ tpIdle /\ mrIdle
efOthers == <<siVars, abVars, nlVars, dpVars, sdVars, mdVars, swVars, elVars, csVars, rpVars, ccVars, rgVars, hlVars, cmVars, ctVars, psVars, tpVars, mrVars>>
efOthersIdle == siIdle /\ abIdle /\ nlIdle /\ dpIdle /\ sdIdle /\ mdIdle /\ swIdle /\ elIdle /\ csIdle /\ rpIdle /\ ccIdle /\ rgIdle /\ hlIdle /\ cmIdle /\ ctIdle /\ psIdle /\ tpIdle /\ mrIdle
dpOthers == <<siVars, abVars, nlVars, efVars, sdVars, mdVars, swVars, elVars, csVars, rpVars, ccVars, rgVars, hlVars, cmVars, ctVars, psVars, tpVars, mrVars>>
dpOthersIdle == siIdle /\ abIdle /\ nlIdle /\ efIdle /\ sdIdle /\ mdIdle /\ swIdle /\ elIdle /\ csIdle /\ rpIdle /\ ccIdle /\ rgIdle /\ hlIdle /\ cmIdle /\ ctIdle /\ psIdle /\ tpIdle /\ mrIdle
sdOthers == <<siVars, abVars, nlVars, efVars, dpVars, mdVars, swVars, elVars, csVars, rpVars, ccVars, rgVars, hlVars, cmVars, ctVars, psVars, tpVars, mrVars>>
sdOthersIdle == siIdle /\ abIdle /\ nlIdle /\ efIdle /\ dpIdle /\ mdIdle /\ swIdle /\ elIdle /\ csIdle /\ rpIdle /\ ccIdle /\ rgIdle /\ hlIdle /\ cmIdle /\ ctIdle /\ psIdle /\ tpIdle /\ mrIdle
mdOthers == <<siVars, abVars, nlVars, efVars, dpVars, sdVars, swVars, elVars, csVars, rpVars, ccVars, rgVars, hlVars, cmVars, ctVars, psVars, tpVars, mrVars>>
mdOthersIdle == siIdle /\ abIdle /\ nlIdle /\ efIdle /\ dpIdle /\ sdIdle /\ swIdle /\ elIdle /\ csIdle /\ rpIdle /\ ccIdle /\ rgIdle /\ hlIdle /\ cmIdle /\ ctIdle /\ psIdle /\ tpIdle /\ mrIdle
swOthers == <<siVars, abVars, nlVars, efVars, dpVars, sdVars, mdVars, elVars, csVars, rpVars, ccVars, rgVars, hlVars, cmVars, ctVars, psVars, tpVars, mrVars>>
swOthersIdle == siIdle /\ abIdle /\ nlIdle /\ efIdle /\ dpIdle /\ sdIdle /\ mdIdle /\ elIdle /\ csIdle /\ rpIdle /\ ccIdle /\ rgIdle /\ hlIdle /\ cmIdle /\ ctIdle /\ psIdle /\ tpIdle /\ mrIdle
elOthers == <<siVars, abVars, nlVars, efVars, dpVars, sdVars, mdVars, swVars, csVars, rpVars, ccVars, rgVars, hlVars, cmVars, ctVars, psVars, tpVars, mrVars>>
elOthersIdle == siIdle /\ abIdle /\ nlIdle /\ efIdle /\ dpIdle /\ sdIdle /\ mdIdle /\ swIdle /\ csIdle /\ rpIdle /\ ccIdle /\ rgIdle /\ hlIdle /\ cmIdle /\ ctIdle /\ psIdle /\ tpIdle /\ mrIdle
csOthers == <<siVars, abVars, nlVars, efVars, dpVars, sdVars, mdVars, swVars, elVars, rpVars, ccVars, rgVars, hlVars, cmVars, ctVars, psVars, tpVars, mrVars>>
csOthersIdle == siIdle /\ abIdle /\ nlIdle /\ efIdle /\ dpIdle /\ sdIdle /\ mdIdle /\ swIdle /\ elIdle /\ rpIdle /\ ccIdle /\ rgIdle /\ hlIdle /\ cmIdle /\ ctIdle /\ psIdle /\ tpIdle /\ mrIdle
rpOthers == <<siVars, abVars, nlVars, efVars, dpVars, sdVars, mdVars, swVars, elVars, csVars, ccVars, rgVars, hlVars, cmVars, ctVars, psVars, tpVars, mrVars>>
rpOthersIdle == siIdle /\ abIdle /\ nlIdle /\ efIdle /\ dpIdle /\ sdIdle /\ mdIdle /\ swIdle /\ elIdle /\ csIdle /\ ccIdle /\ rgIdle /\ hlIdle /\ cmIdle /\ ctIdle /\ psIdle /\ tpIdle /\ mrIdle
ccOthers == <<siVars, abVars, nlVars, efVars, dpVars, sdVars, mdVars, swVars, elVars, csVars, rpVars, rgVars, hlVars, cmVars, ctVars, psVars, tpVars, mrVars>>
ccOthersIdle == siIdle /\ abIdle /\ nlIdle /\ efIdle /\ dpIdle /\ sdIdle /\ mdIdle /\ swIdle /\ elIdle /\ csIdle /\ rpIdle /\ rgIdle /\ hlIdle /\ cmIdle /\ ctIdle /\ psIdle /\ tpIdle /\ mrIdle
rgOthers == <<siVars, abVars, nlVars, efVars, dpVars, sdVars, mdVars, swVars, elVars, csVars, rpVars, ccVars, hlVars, cmVars, ctVars, psVars, tpVars, mrVars>>
rgOthersIdle == siIdle /\ abIdle /\ nlIdle /\ efIdle /\ dpIdle /\ sdIdle /\ mdIdle /\ swIdle /\ elIdle /\ csIdle /\ rpIdle /\ ccIdle /\ hlIdle /\ cmIdle /\ ctIdle /\ psIdle /\ tpIdle /\ mrIdle
hlOthers == <<siVars, abVars, nlVars, efVars, dpVars, sdVars, mdVars, swVars, elVars, csVars, rpVars, ccVars, rgVars, cmVars, ctVars, psVars, tpVars, mrVars>>
hlOthersIdle == siIdle /\ abIdle /\ nlIdle /\ efIdle /\ dpIdle /\ sdIdle /\ mdIdle /\ swIdle /\ elIdle /\ csIdle /\ rpIdle /\ ccIdle /\ rgIdle /\ cmIdle /\ ctIdle /\ psIdle /\ tpIdle /\ mrIdle
cmOthers == <<siVars, abVars, nlVars, efVars, dpVars, sdVars, mdVars, swVars, elVars, csVars, rpVars, ccVars, rgVars, hlVars, ctVars, psVars, tpVars, mrVars>>
cmOthersIdle == siIdle /\ abIdle /\ nlIdle /\ efIdle /\ dpIdle /\ sdIdle /\ mdIdle /\ swIdle /\ elIdle /\ csIdle /\ rpIdle /\ ccIdle /\ rgIdle /\ hlIdle /\ ctIdle /\ psIdle /\ tpIdle /\ mrIdle
ctOthers == <<siVars, abVars, nlVars, efVars, dpVars, sdVars, mdVars, swVars, elVars, csVars, rpVars, ccVars, rgVars, hlVars, cmVars, psVars, tpVars, mrVars>>
ctOthersIdle == siIdle /\ abIdle /\ nlIdle /\ efIdle /\ dpIdle /\ sdIdle /\ mdIdle /\ swIdle /\ elIdle /\ csIdle /\ rpIdle /\ ccIdle /\ rgIdle /\ hlIdle /\ cmIdle /\ psIdle /\ tpIdle /\ mrIdle
psOthers == <<siVars, abVars, nlVars, efVars, dpVars, sdVars, mdVars, swVars, elVars, csVars, rpVars, ccVars, rgVars, hlVars, cmVars, ctVars, tpVars, mrVars>>
psOthersIdle == siIdle /\ abIdle /\ nlIdle /\ efIdle /\ dpIdle /\ sdIdle /\ mdIdle /\ swIdle /\ elIdle /\ csIdle /\ rpIdle /\ ccIdle /\ rgIdle /\ hlIdle /\ cmIdle /\ ctIdle /\ tpIdle /\ mrIdle
tpOthers == <<siVars, abVars, nlVars, efVars, dpVars, sdVars, mdVars, swVars, elVars, csVars, rpVars, ccVars, rgVars, hlVars, cmVars, ctVars, psVars, mrVars>>
tpOthersIdle == siIdle /\ abIdle /\ nlIdle /\ efIdle /\ dpIdle /\ sdIdle /\ mdIdle /\ swIdle /\ elIdle /\ csIdle /\ rpIdle /\ ccIdle /\ rgIdle /\ hlIdle /\ cmIdle /\ ctIdle /\ psIdle /\ mrIdle
mrOthers == <<siVars, abVars, nlVars, efVars, dpVars, sdVars, mdVars, swVars, elVars, csVars, rpVars, ccVars, rgVars, hlVars, cmVars, ctVars, psVars, tpVars>>
mrOthersIdle == siIdle /\ abIdle /\ nlIdle /\ efIdle /\ dpIdle /\ sdIdle /\ mdIdle /\ swIdle /\ elIdle /\ csIdle /\ rpIdle /\ ccIdle /\ rgIdle /\ hlIdle /\ cmIdle /\ ctIdle /\ psIdle /\ tpIdle
\* (end of the frames)

(***************************************************************************)
(* Positions of tokens and of AST nodes (CppRefactoringFile::startOf,      *)
(* endOf, isCursorOn; ASTPath).                                            *)
(***************************************************************************)
startOf(tok) == 3 * tok
endOf(tok) == 3 * tok + 1

\* CppRefactoringFile::isCursorOn(unsigned tokenIndex): both ends inclusive.
isCursorOn(cursor, tok) == cursor >= startOf(tok) /\ cursor <= endOf(tok)

\* ASTPath keeps a node when the cursor lies in [start of first token, end of last token].
Covers(node, cursor) == cursor >= startOf(node.first) /\ cursor <= endOf(node.last)

(***************************************************************************)
(* Conditions of an if statement: identifiers, binary expressions and      *)
(* parenthesised (nested) expressions.                                     *)
(***************************************************************************)
T_AMPER_AMPER == "&&"
T_PIPE_PIPE == "||"
T_EQUAL_EQUAL == "=="
BinaryOps == {T_AMPER_AMPER, T_PIPE_PIPE, T_EQUAL_EQUAL}

\* The number of operands (identifiers) a condition has at most.
MaxOperands == 3

IdExpr == [kind |-> "Id"]
BinExpr(op, l, r) == [kind |-> "Binary", op |-> op, left |-> l, right |-> r]
NestedExpr(e) == [kind |-> "Nested", expr |-> e]

\* Binding strength of the binary operators: == over && over ||.
Prec(op) == CASE op = T_EQUAL_EQUAL -> 3 [] op = T_AMPER_AMPER -> 2 [] OTHER -> 1

\* What the parser builds for left-associative operators: an operand that is
\* itself an unparenthesised binary expression binds at least as strongly on
\* the left and strictly more strongly on the right.
Parseable(op, l, r) ==
    /\ l.kind = "Binary" => Prec(l.op) >= Prec(op)
    /\ r.kind = "Binary" => Prec(r.op) > Prec(op)

RECURSIVE ExprsOf(_)
\* The conditions with exactly n operands; a binary expression may be parenthesised.
ExprsOf(n) ==
    IF n = 1 THEN {IdExpr}
    ELSE LET bins == UNION {
                 LET lefts == ExprsOf(k)
                     rights == ExprsOf(n - k)
                 IN {BinExpr(op, l, r) : op \in BinaryOps, l \in lefts, r \in rights}
                 : k \in 1..(n - 1)}
             ok == {b \in bins : Parseable(b.op, b.left, b.right)}
         IN ok \cup {NestedExpr(b) : b \in ok}

Conditions == UNION {ExprsOf(n) : n \in 1..MaxOperands}

RECURSIVE Layout(_, _)
\* The expression with the token indices of its nodes, its first token being t.
Layout(e, t) ==
    CASE e.kind = "Id" -> [kind |-> "Id", first |-> t, last |-> t]
      [] e.kind = "Nested" ->
            LET inner == Layout(e.expr, t + 1)
            IN [kind |-> "Nested", first |-> t, last |-> inner.last + 1, expr |-> inner]
      [] e.kind = "Binary" ->
            LET l == Layout(e.left, t)
                r == Layout(e.right, l.last + 2)
            IN [kind |-> "Binary", op |-> e.op, binary_op_token |-> l.last + 1,
                first |-> t, last |-> r.last, left |-> l, right |-> r]

RECURSIVE ExprPath(_, _)
\* The nodes of a laid-out expression that cover the cursor, outermost first.
ExprPath(e, cursor) ==
    IF ~Covers(e, cursor) THEN <<>>
    ELSE <<e>> \o
         (CASE e.kind = "Id" -> <<>>
            [] e.kind = "Nested" -> ExprPath(e.expr, cursor)
            [] e.kind = "Binary" -> ExprPath(e.left, cursor) \o ExprPath(e.right, cursor))

(***************************************************************************)
(* The if statement a SplitIfStatement input holds:                        *)
(*    {  if ( cond ) statement [ else else_statement ]                     *)
(* token 0 is the brace of the enclosing block, token 1 is `if`, token 2   *)
(* `(`, the condition starts at token 3.                                   *)
(***************************************************************************)
IfStatement(cond, hasStatement, hasElse) ==
    LET c == Layout(cond, 3)
        rparen == c.last + 1
        last == IF hasElse THEN rparen + 3 ELSE IF hasStatement THEN rparen + 1 ELSE rparen
    IN [kind |-> "IfStatement", first |-> 1, last |-> last, if_token |-> 1,
        condition |-> c, rparen_token |-> rparen,
        statement |-> IF hasStatement
                      THEN [kind |-> "Statement", first |-> rparen + 1, last |-> rparen + 1]
                      ELSE [kind |-> "null"],
        else_token |-> IF hasElse THEN rparen + 2 ELSE 0,
        else_statement |-> IF hasElse
                           THEN [kind |-> "Statement", first |-> rparen + 3, last |-> rparen + 3]
                           ELSE [kind |-> "null"]]

\* The nodes above every if statement: translation unit, function, its body.
OuterPath == <<[kind |-> "TranslationUnit"], [kind |-> "FunctionDefinition"],
               [kind |-> "CompoundStatement"]>>

\* interface.path() for a cursor: root first, innermost node last.
SplitIfPath(stmt, cursor) ==
    IF ~Covers(stmt, cursor) THEN OuterPath
    ELSE OuterPath \o <<stmt>> \o
         (IF Covers(stmt.condition, cursor) THEN ExprPath(stmt.condition, cursor)
          ELSE IF stmt.statement.kind # "null" /\ Covers(stmt.statement, cursor)
               THEN <<stmt.statement>>
          ELSE IF stmt.else_statement.kind # "null" /\ Covers(stmt.else_statement, cursor)
               THEN <<stmt.else_statement>>
          ELSE <<>>)

\* The inputs: every condition, with and without a statement and an else
\* branch, and every cursor position from the brace before the if statement
\* to the white space after its last token.
SplitIfInputs(c) ==
    UNION {
        LET stmt == IfStatement(c, b[1], b[2])
        IN {[stmt |-> stmt, cursor |-> cur] : cur \in 0..(endOf(stmt.last) + 1)}
        : b \in {<<FALSE, FALSE>>, <<TRUE, FALSE>>, <<TRUE, TRUE>>}}

(***************************************************************************)
(* SplitIfStatement::doMatch                                               *)
(***************************************************************************)
\* The index (from 1) of the innermost if statement of the path, 0 for none.
InnermostIf(path) ==
    LET ifs == {i \in 1..Len(path) : path[i].kind = "IfStatement"}
    IN IF ifs = {} THEN 0 ELSE CHOOSE i \in ifs : \A j \in ifs : j <= i

\* A scan that forgets the kind of the chain: every && or || on the way is accepted.
RECURSIVE SplitIfScanMixing(_, _, _, _, _)
SplitIfScanMixing(path, pattern, cursor, i, splitKind) ==
    IF i > Len(path) THEN <<>>
    ELSE LET condition == path[i] IN
         IF condition.kind # "Binary" THEN <<>>
         ELSE LET kind == condition.op IN
              IF kind # T_AMPER_AMPER /\ kind # T_PIPE_PIPE THEN <<>>
              ELSE IF kind = T_AMPER_AMPER /\ pattern.else_statement.kind # "null" THEN <<>>
              ELSE IF isCursorOn(cursor, condition.binary_op_token)
                   THEN <<[rule |-> "SplitIfStatement", priority |-> i - 1,
                           pattern |-> pattern, condition |-> condition]>>
              ELSE SplitIfScanMixing(path, pattern, cursor, i + 1, kind)

\* A scan that splits && also when the if statement has an else branch.
RECURSIVE SplitIfScanIgnoringElse(_, _, _, _, _)
SplitIfScanIgnoringElse(path, pattern, cursor, i, splitKind) ==
    IF i > Len(path) THEN <<>>
    ELSE LET condition == path[i] IN
         IF condition.kind # "Binary" THEN <<>>
         ELSE LET kind == condition.op IN
              IF splitKind = "" /\ kind # T_AMPER_AMPER /\ kind # T_PIPE_PIPE THEN <<>>
              ELSE IF splitKind # "" /\ splitKind # kind THEN <<>>
              ELSE IF isCursorOn(cursor, condition.binary_op_token)
                   THEN <<[rule |-> "SplitIfStatement", priority |-> i - 1,
                           pattern |-> pattern, condition |-> condition]>>
              ELSE SplitIfScanIgnoringElse(path, pattern, cursor, i + 1, kind)

\* The loop over the nodes below the if statement; splitKind "" is the
\* source's 0 (no operator seen yet).  i counts from 1, the source's index
\* from 0, so the priority handed to the operation is i - 1.
RECURSIVE SplitIfScan(_, _, _, _, _)
SplitIfScan(path, pattern, cursor, i, splitKind) ==
    IF i > Len(path) THEN <<>>
    ELSE LET condition == path[i] IN
         IF condition.kind # "Binary" THEN <<>>
         ELSE LET kind == condition.op IN
              \* only accept a chain of ||s or &&s - no mixing
              IF splitKind = "" /\ kind # T_AMPER_AMPER /\ kind # T_PIPE_PIPE THEN <<>>
              \* we can't reliably split &&s in ifs with an else branch
              ELSE IF splitKind = "" /\ kind = T_AMPER_AMPER
                      /\ pattern.else_statement.kind # "null" THEN <<>>
              ELSE IF splitKind # "" /\ splitKind # kind THEN <<>>
              ELSE IF isCursorOn(cursor, condition.binary_op_token)
                   THEN <<[rule |-> "SplitIfStatement", priority |-> i - 1,
                           pattern |-> pattern, condition |-> condition]>>
              ELSE SplitIfScan(path, pattern, cursor, i + 1, kind)

SplitIfStatement_doMatch(path, cursor) ==
    LET index == InnermostIf(path) IN
    IF index = 0 THEN <<>>
    ELSE LET pattern == path[index] IN
         IF pattern.statement.kind = "null" THEN <<>>
         ELSE SplitIfScan(path, pattern, cursor, index + 1, "")

SplitIfInit ==
    /\ \E c \in Conditions : siInput \in SplitIfInputs(c)
    /\ siPc = "input"
    /\ siResult = <<>>
    /\ siChanges = <<>>
    /\ siOthersIdle

SplitIfMatch ==
    /\ siPc = "input"
    /\ siResult' = SplitIfStatement_doMatch(SplitIfPath(siInput.stmt, siInput.cursor),
                                            siInput.cursor)
    /\ siPc' = "matched"
    /\ UNCHANGED <<siInput, siChanges, siOthers>>

SplitIfNext == SplitIfMatch

SpecSplitIf == SplitIfInit /\ [][SplitIfNext]_vars

(***************************************************************************)
(* What the claims about SplitIfStatement speak of.                        *)
(***************************************************************************)
RECURSIVE OpKinds(_)
\* The kinds of all binary operators of a condition, parenthesised ones included.
OpKinds(e) ==
    CASE e.kind = "Id" -> {}
      [] e.kind = "Nested" -> OpKinds(e.expr)
      [] e.kind = "Binary" -> {e.op} \cup OpKinds(e.left) \cup OpKinds(e.right)

RECURSIVE OpTokens(_)
\* The tokens of all binary operators of a laid-out condition.
OpTokens(e) ==
    CASE e.kind = "Id" -> {}
      [] e.kind = "Nested" -> OpTokens(e.expr)
      [] e.kind = "Binary" -> {e.binary_op_token} \cup OpTokens(e.left) \cup OpTokens(e.right)

RECURSIVE ChainTokens(_)
\* The operator tokens reached from the root of the condition through binary
\* expressions only, that is, not inside a parenthesised operand.
ChainTokens(e) ==
    IF e.kind # "Binary" THEN {}
    ELSE {e.binary_op_token} \cup ChainTokens(e.left) \cup ChainTokens(e.right)

siCond == siInput.stmt.condition
siHasElse == siInput.stmt.else_statement.kind # "null"
siHasStatement == siInput.stmt.statement.kind # "null"
siCursorOnAny(toks) == \E t \in toks : isCursorOn(siInput.cursor, t)
siPath == SplitIfPath(siInput.stmt, siInput.cursor)

\* The kinds of the binary expressions of the path below the if statement.
siChainKinds ==
    {siPath[i].op : i \in {j \in (InnermostIf(siPath) + 1)..Len(siPath) :
                               siPath[j].kind = "Binary"}}

\* C1 as stated: an if statement whose condition holds both && and || gets no
\* operation, wherever the cursor is.
C1_MixedConditionNeverSplit ==
    (siPc = "matched" /\ {T_AMPER_AMPER, T_PIPE_PIPE} \subseteq OpKinds(siCond))
        => siResult = <<>>

\* C1 amended: no operation is offered when the binary expressions on the way
\* from the if statement down to the node under the cursor are not all of one
\* kind, wherever the cursor is.  (A condition that holds both kinds, such as
\* (a && b) || c, is still split at an operator reached through one kind.)
C1_MixedChainNeverSplit ==
    (siPc = "matched" /\ Cardinality(siChainKinds) > 1) => siResult = <<>>

\* The cursor is on the && of a && b || c: the chain is ||, && and nothing is offered.
C1_Witness ==
    /\ siPc = "matched"
    /\ siChainKinds = {T_AMPER_AMPER, T_PIPE_PIPE}
    /\ siCursorOnAny(ChainTokens(siCond))
    /\ ~siHasElse /\ siHasStatement
    /\ siResult = <<>>

\* C2 as stated: the condition holds no operator but &&; with the cursor on
\* an && there is exactly one operation without an else branch and none with
\* one; with the cursor on no operator token there is none.
C2_AndChainSplitAsStated ==
    (siPc = "matched" /\ OpKinds(siCond) = {T_AMPER_AMPER}) =>
        /\ siCursorOnAny(OpTokens(siCond)) =>
               Len(siResult) = (IF siHasElse THEN 0 ELSE 1)
        /\ ~siCursorOnAny(OpTokens(siCond)) => siResult = <<>>

\* C2 amended: for an if statement that has its body statement and whose
\* condition holds no operator but &&, with the cursor on an && that is not
\* inside a parenthesised operand, exactly one operation is offered without
\* an else branch and none with one; with the cursor on no operator token
\* none is offered, with or without an else branch.
C2_AndChainSplit ==
    (siPc = "matched" /\ OpKinds(siCond) = {T_AMPER_AMPER}) =>
        /\ (siHasStatement /\ siCursorOnAny(ChainTokens(siCond))) =>
               /\ Len(siResult) = (IF siHasElse THEN 0 ELSE 1)
               /\ \A i \in 1..Len(siResult) :
                      /\ siResult[i].pattern = siInput.stmt
                      /\ isCursorOn(siInput.cursor, siResult[i].condition.binary_op_token)
        /\ ~siCursorOnAny(OpTokens(siCond)) => siResult = <<>>

\* a && b && c without an else branch, the cursor on the first &&: one operation.
C2_Witness ==
    /\ siPc = "matched"
    /\ OpKinds(siCond) = {T_AMPER_AMPER}
    /\ siCond.kind = "Binary" /\ siCond.left.kind = "Binary"
    /\ isCursorOn(siInput.cursor, siCond.left.binary_op_token)
    /\ siHasStatement /\ ~siHasElse
    /\ Len(siResult) = 1

(***************************************************************************)
(* Control statements for AddBracesToControlStatement.                     *)
(*    if ( c ) body [ else ( if ... | body ) ]                             *)
(*    while ( c ) body      for ( h ) body      do body while ( c ) ;      *)
(* A body is missing ("null"), a single statement of one token, or a       *)
(* compound statement (its two braces).                                    *)
(***************************************************************************)
\* The number of else-if statements an if chain has at most.
MaxElseIfs == 2

BodyKinds == {"null", "Statement", "CompoundStatement"}

RECURSIVE IfShapes(_)
\* The if chains with at most n else-if statements.
IfShapes(n) ==
    {[kind |-> "IfStatement", body |-> b, else |-> e] :
        b \in BodyKinds,
        e \in {[kind |-> k] : k \in BodyKinds} \cup (IF n > 0 THEN IfShapes(n - 1) ELSE {})}

LoopKinds == {"WhileStatement", "ForStatement", "RangeBasedForStatement", "DoStatement"}

ControlShapes ==
    IfShapes(MaxElseIfs)
        \cup {[kind |-> k, body |-> b] : k \in LoopKinds, b \in BodyKinds}
        \cup {[kind |-> "ExpressionStatement"]}

\* A body of the given kind whose first token is t; a missing body has no token.
BodyAt(kind, t) ==
    CASE kind = "null" -> [kind |-> "null", first |-> t, last |-> t - 1]
      [] kind = "Statement" -> [kind |-> "Statement", first |-> t, last |-> t]
      [] kind = "CompoundStatement" -> [kind |-> "CompoundStatement", first |-> t, last |-> t + 1]

RECURSIVE StatementAt(_, _)
\* The statement of a shape with the token indices of its nodes, its first token being t.
StatementAt(shape, t) ==
    CASE shape.kind = "IfStatement" ->
            \* if ( c ) body else ...
            LET body == BodyAt(shape.body, t + 4)
                hasElse == shape.else.kind # "null"
                elseTok == body.last + 1
                els == IF ~hasElse THEN [kind |-> "null"]
                       ELSE IF shape.else.kind = "IfStatement"
                            THEN StatementAt(shape.else, elseTok + 1)
                       ELSE BodyAt(shape.else.kind, elseTok + 1)
            IN [kind |-> "IfStatement", first |-> t,
                last |-> IF hasElse THEN els.last ELSE body.last,
                if_token |-> t, condition |-> [kind |-> "Id", first |-> t + 2, last |-> t + 2],
                rparen_token |-> t + 3, statement |-> body,
                else_token |-> IF hasElse THEN elseTok ELSE 0, else_statement |-> els]
      [] shape.kind \in {"WhileStatement", "ForStatement", "RangeBasedForStatement"} ->
            \* while ( c ) body
            LET body == BodyAt(shape.body, t + 4)
            IN [kind |-> shape.kind, first |-> t, last |-> body.last,
                trigger_token |-> t, condition |-> [kind |-> "Id", first |-> t + 2, last |-> t + 2],
                rparen_token |-> t + 3, statement |-> body]
      [] shape.kind = "DoStatement" ->
            \* do body while ( c ) ;
            LET body == BodyAt(shape.body, t + 1)
            IN [kind |-> "DoStatement", first |-> t, last |-> body.last + 5,
                do_token |-> t, statement |-> body, while_token |-> body.last + 1,
                condition |-> [kind |-> "Id", first |-> body.last + 3, last |-> body.last + 3],
                rparen_token |-> body.last + 4]
      [] OTHER -> [kind |-> shape.kind, first |-> t, last |-> t]

RECURSIVE StatementPath(_, _)
\* The nodes of a statement that cover the cursor, outermost first.
StatementPath(stmt, cursor) ==
    IF stmt.kind = "null" \/ ~Covers(stmt, cursor) THEN <<>>
    ELSE <<stmt>> \o
         (IF stmt.kind \in LoopKinds \cup {"IfStatement"}
          THEN StatementPath(stmt.condition, cursor)
                   \o StatementPath(stmt.statement, cursor)
                   \o (IF stmt.kind = "IfStatement"
                       THEN StatementPath(stmt.else_statement, cursor) ELSE <<>>)
          ELSE <<>>)

\* interface.path() for AddBracesToControlStatement; the cursor before the
\* first token of the file (position 0 is the brace of the enclosing block,
\* a position before it has no node) gives the empty path.
AddBracesPath(stmt, cursor) ==
    IF cursor < 0 THEN <<>>
    ELSE OuterPath \o StatementPath(stmt, cursor)

AddBracesInputs(sh) ==
    LET stmt == StatementAt(sh, 1)
    IN {[stmt |-> stmt, cursor |-> cur] : cur \in (-1)..(endOf(stmt.last) + 1)}

(***************************************************************************)
(* AddBracesToControlStatement::doMatch and checkControlStatementsHelper   *)
(***************************************************************************)
\* asControlStatement<Statement>(node) for any of the five statement types.
asControlStatement(node) == node.kind \in LoopKinds \cup {"IfStatement"}

\* triggerToken(statement)
triggerToken(statement) ==
    CASE statement.kind = "IfStatement" -> statement.if_token
      [] statement.kind = "DoStatement" -> statement.do_token
      [] OTHER -> statement.trigger_token

\* statement->statement && !statement->statement->asCompoundStatement()
NeedsBraces(statement) ==
    statement.statement.kind # "null" /\ statement.statement.kind # "CompoundStatement"

RECURSIVE ElseChain(_)
\* The for loop over the else branches of an if statement: the else-if
\* statements whose body needs braces, then the else statement and the else
\* token the loop ends with.
ElseChain(currentIfStmt) ==
    LET elseStmt == currentIfStmt.else_statement
        elseToken == currentIfStmt.else_token
    IN IF elseStmt.kind = "IfStatement"
       THEN LET rest == ElseChain(elseStmt)
            IN [statements |-> (IF NeedsBraces(elseStmt) THEN <<elseStmt>> ELSE <<>>)
                                   \o rest.statements,
                elseStmt |-> rest.elseStmt, elseToken |-> rest.elseToken]
       ELSE [statements |-> <<>>, elseStmt |-> elseStmt, elseToken |-> elseToken]

\* A helper that looks at the first body only and forgets the else branches.
checkControlStatementsHelperNoElse(statement, cursor) ==
    LET statements == IF isCursorOn(cursor, triggerToken(statement)) /\ NeedsBraces(statement)
                      THEN <<statement>> ELSE <<>>
    IN IF statements # <<>>
       THEN <<[rule |-> "AddBracesToControlStatement", priority |-> 0,
               statements |-> statements, elseStatement |-> [kind |-> "null"],
               elseToken |-> 0]>>
       ELSE <<>>

\* A helper that keeps a compound else statement.
checkControlStatementsHelperCompoundElse(statement, cursor) ==
    LET chain == IF statement.kind = "IfStatement" THEN ElseChain(statement)
                 ELSE [statements |-> <<>>, elseStmt |-> [kind |-> "null"], elseToken |-> 0]
        statements == (IF isCursorOn(cursor, triggerToken(statement)) /\ NeedsBraces(statement)
                       THEN <<statement>> ELSE <<>>) \o chain.statements
    IN IF statements # <<>> \/ chain.elseStmt.kind # "null"
       THEN <<[rule |-> "AddBracesToControlStatement", priority |-> 0,
               statements |-> statements, elseStatement |-> chain.elseStmt,
               elseToken |-> chain.elseToken]>>
       ELSE <<>>

\* checkControlStatementsHelper<Statement> for the type that statement has.
checkControlStatementsHelper(statement, cursor) ==
    LET chain == IF statement.kind = "IfStatement" THEN ElseChain(statement)
                 ELSE [statements |-> <<>>, elseStmt |-> [kind |-> "null"], elseToken |-> 0]
        statements == (IF isCursorOn(cursor, triggerToken(statement)) /\ NeedsBraces(statement)
                       THEN <<statement>> ELSE <<>>) \o chain.statements
        dropElse == chain.elseStmt.kind \in {"IfStatement", "CompoundStatement"}
        elseStmt == IF dropElse THEN [kind |-> "null"] ELSE chain.elseStmt
        elseToken == IF dropElse THEN 0 ELSE chain.elseToken
    IN IF statements # <<>> \/ elseStmt.kind # "null"
       THEN <<[rule |-> "AddBracesToControlStatement", priority |-> 0,
               statements |-> statements, elseStatement |-> elseStmt,
               elseToken |-> elseToken]>>
       ELSE <<>>

AddBracesToControlStatement_doMatch(path, cursor) ==
    IF path = <<>> THEN <<>>
    ELSE IF ~asControlStatement(path[Len(path)]) THEN <<>>
    ELSE checkControlStatementsHelper(path[Len(path)], cursor)

AddBracesInit ==
    /\ \E sh \in ControlShapes : abInput \in AddBracesInputs(sh)
    /\ abPc = "input"
    /\ abResult = <<>>
    /\ abChanges = <<>>
    /\ abOthersIdle

AddBracesMatch ==
    /\ abPc = "input"
    /\ abResult' = AddBracesToControlStatement_doMatch(
                       AddBracesPath(abInput.stmt, abInput.cursor), abInput.cursor)
    /\ abPc' = "matched"
    /\ UNCHANGED <<abInput, abChanges, abOthers>>

AddBracesNext == AddBracesMatch

SpecAddBraces == AddBracesInit /\ [][AddBracesNext]_vars

(***************************************************************************)
(* What the claims about AddBracesToControlStatement speak of.             *)
(***************************************************************************)
RECURSIVE ElseBranchesBraced(_)
\* No else-if body and no trailing else statement is a statement without braces.
ElseBranchesBraced(elseStmt) ==
    \/ elseStmt.kind \in {"null", "CompoundStatement"}
    \/ /\ elseStmt.kind = "IfStatement"
       /\ elseStmt.statement.kind \in {"null", "CompoundStatement"}
       /\ ElseBranchesBraced(elseStmt.else_statement)

abBodyIsCompound ==
    abInput.stmt.kind = "IfStatement" /\ abInput.stmt.statement.kind = "CompoundStatement"

\* C3 as stated: an if statement whose body is a compound statement gets no
\* operation, whatever its else branch is and wherever the cursor is.
C3_CompoundBodyNoOperation ==
    (abPc = "matched" /\ abBodyIsCompound) => abResult = <<>>

\* C3 amended: an if statement whose body is a compound statement, and whose
\* else-if bodies and trailing else statement are compound statements too
\* (or absent), gets no operation, wherever the cursor is.
C3_BracedChainNoOperation ==
    (abPc = "matched" /\ abBodyIsCompound /\ ElseBranchesBraced(abInput.stmt.else_statement))
        => abResult = <<>>

\* if (c) {} else if (c) {} else {} with the cursor on the first `if`: nothing is offered.
C3_Witness ==
    /\ abPc = "matched"
    /\ abBodyIsCompound
    /\ abInput.stmt.else_statement.kind = "IfStatement"
    /\ abInput.stmt.else_statement.else_statement.kind = "CompoundStatement"
    /\ ElseBranchesBraced(abInput.stmt.else_statement)
    /\ abInput.stmt.else_statement.statement.kind = "CompoundStatement"
    /\ isCursorOn(abInput.cursor, abInput.stmt.if_token)
    /\ abResult = <<>>

(***************************************************************************)
(* ConvertNumericLiteral.  A spelling is a sequence of characters.         *)
(***************************************************************************)
\* The width of unsigned long in bits.  The source's ulong has 64 bits on the
\* platforms where long is 64 bits wide; the model scales it down, and every
\* value that does not fit is rejected by toULong as there.
ULongBits == 6
\* The number of digits a literal of the input has at most.
MaxDigits == 2
\* The number of conversions performed on one literal at most.
MaxConversions == 2

RECURSIVE Pow2(_)
Pow2(n) == IF n = 0 THEN 1 ELSE 2 * Pow2(n - 1)

ULONG_MAX == Pow2(ULongBits) - 1

LowerDigits == <<"0", "1", "2", "3", "4", "5", "6", "7", "8", "9",
                 "a", "b", "c", "d", "e", "f">>
UpperDigits == <<"0", "1", "2", "3", "4", "5", "6", "7", "8", "9",
                 "A", "B", "C", "D", "E", "F">>

\* std::isxdigit
isxdigit(c) == \E i \in 1..16 : LowerDigits[i] = c \/ UpperDigits[i] = c

\* The value of a digit character, 16 for a character that is no digit.
DigitValue(c) ==
    IF isxdigit(c) THEN (CHOOSE i \in 1..16 : LowerDigits[i] = c \/ UpperDigits[i] = c) - 1
    ELSE 16

StartsWith(x, prefix) ==
    Len(x) >= Len(prefix) /\ SubSeq(x, 1, Len(prefix)) = prefix

\* x.startsWith("0b", Qt::CaseInsensitive), x.startsWith("0x", ...)
StartsWith0b(x) == StartsWith(x, <<"0", "b">>) \/ StartsWith(x, <<"0", "B">>)
StartsWith0x(x) == StartsWith(x, <<"0", "x">>) \/ StartsWith(x, <<"0", "X">>)

RECURSIVE DigitsValue(_, _)
\* The number a row of digits spells in a base (every digit is below the base).
DigitsValue(digits, base) ==
    IF digits = <<>> THEN 0
    ELSE DigitsValue(SubSeq(digits, 1, Len(digits) - 1), base) * base
             + DigitValue(digits[Len(digits)])

\* QString::toULong(&ok, base) for base 2, 8, 10 or 16 on the digits alone:
\* ok needs a digit, nothing but digits of the base, and a value that fits.
ParseDigits(digits, base) ==
    LET ok == /\ digits # <<>>
              /\ \A i \in 1..Len(digits) : DigitValue(digits[i]) < base
              /\ DigitsValue(digits, base) <= ULONG_MAX
    IN [valid |-> ok, value |-> IF ok THEN DigitsValue(digits, base) ELSE 0]

\* QString::toULong(&ok, 0): the base follows the C convention, 0x for 16,
\* a leading 0 for 8, otherwise 10.
toULongBase0(x) ==
    IF StartsWith0x(x) THEN ParseDigits(SubSeq(x, 3, Len(x)), 16)
    ELSE IF x # <<>> /\ x[1] = "0" THEN ParseDigits(x, 8)
    ELSE ParseDigits(x, 10)

RECURSIVE FormatDigits(_, _, _)
\* printf's %lu, %lo, %lX: the digits of value in a base, no padding.
FormatDigits(value, base, alphabet) ==
    IF value < base THEN <<alphabet[value + 1]>>
    ELSE FormatDigits(value \div base, base, alphabet) \o <<alphabet[(value % base) + 1]>>

RECURSIVE BitString(_, _)
\* std::bitset<digits>(value).to_string(): width characters, the highest bit first.
BitString(value, width) ==
    IF width = 0 THEN <<>>
    ELSE BitString(value \div 2, width - 1) \o <<LowerDigits[(value % 2) + 1]>>

RECURSIVE RemoveLeadingZeros(_)
\* QString::remove(QRegularExpression("^[0]*"))
RemoveLeadingZeros(str) ==
    IF str # <<>> /\ str[1] = "0" THEN RemoveLeadingZeros(Tail(str)) ELSE str

RECURSIVE NumberLength(_, _)
\* while (numberLength > 0 && !std::isxdigit(spell[numberLength - 1])) --numberLength;
NumberLength(spell, numberLength) ==
    IF numberLength > 0 /\ ~isxdigit(spell[numberLength])
    THEN NumberLength(spell, numberLength - 1)
    ELSE numberLength

(***************************************************************************)
(* The NumericLiteral of the token (the lexer's classification).           *)
(***************************************************************************)
\* NumericLiteral::isHex()
isHex(spell) == Len(spell) > 1 /\ StartsWith0x(spell)

RECURSIVE SuffixStart(_, _)
\* The index after which the spelling holds nothing but the suffix letters l, u and f.
SuffixStart(spell, n) ==
    IF n > 0 /\ spell[n] \in {"l", "L", "u", "U", "f", "F"}
    THEN SuffixStart(spell, n - 1)
    ELSE n

\* NumericLiteral::isFloat(): a literal that is not hexadecimal and has the suffix f.
isFloat(spell) ==
    /\ ~isHex(spell)
    /\ \E i \in (SuffixStart(spell, Len(spell)) + 1)..Len(spell) : spell[i] \in {"f", "F"}

\* NumericLiteral::isDouble(): a literal with a dot that is neither hexadecimal nor float.
isDouble(spell) ==
    ~isHex(spell) /\ ~isFloat(spell) /\ \E i \in 1..Len(spell) : spell[i] = "."

(***************************************************************************)
(* ConvertNumericLiteral::doMatch                                          *)
(***************************************************************************)
\* const bool isBinary = numberLength > 2 && str[0] == '0' && (str[1] == 'b' || str[1] == 'B');
isBinaryLiteral(str, numberLength) ==
    numberLength > 2 /\ str[1] = "0" /\ (str[2] = "b" \/ str[2] = "B")

\* An octal test that takes the single digit 0 for an octal literal.
isOctalLiteralFromOneDigit(str, numberLength) ==
    numberLength >= 1 /\ str[1] = "0"
        /\ (numberLength >= 2 => DigitValue(str[2]) <= 7)

\* const bool isOctal = numberLength >= 2 && str[0] == '0' && str[1] >= '0' && str[1] <= '7';
isOctalLiteral(str, numberLength) ==
    numberLength >= 2 /\ str[1] = "0" /\ DigitValue(str[2]) <= 7

\* A hexadecimal replacement that lost its 0x.
HexReplacementNoPrefix(value) == FormatDigits(value, 16, UpperDigits)

\* QString::asprintf("0x%lX", value)
HexReplacement(value) == <<"0", "x">> \o FormatDigits(value, 16, UpperDigits)

\* QString::asprintf("0%lo", value)
OctalReplacement(value) == <<"0">> \o FormatDigits(value, 8, UpperDigits)

\* QString::asprintf("%lu", value)
DecimalReplacement(value) == FormatDigits(value, 10, UpperDigits)

\* A binary replacement that keeps every bit of the bitset.
BinaryReplacementAllBits(value) == <<"0", "b">> \o BitString(value, ULongBits)

\* "0b" followed by "0" for the value 0 and by the bits without leading zeros otherwise.
BinaryReplacement(value) ==
    <<"0", "b">> \o (IF value = 0 THEN <<"0">>
                     ELSE RemoveLeadingZeros(BitString(value, ULongBits)))

ConvertNumericLiteralOpLowered(priority, start, end, replacement, description) ==
    [rule |-> "ConvertNumericLiteral", priority |-> priority - 1, start |-> start,
     end |-> end, replacement |-> replacement, description |-> description]

ConvertNumericLiteralOp(priority, start, end, replacement, description) ==
    [rule |-> "ConvertNumericLiteral", priority |-> priority, start |-> start, end |-> end,
     replacement |-> replacement, description |-> description]

NoMatch == [value |-> -1, ops |-> <<>>]

\* The token of the literal is token 5 of the file.
LiteralToken == 5

ConvertNumericLiteral_doMatch(input) ==
    LET path == input.path IN
    IF path = <<>> THEN NoMatch
    ELSE IF path[Len(path)].kind # "NumericLiteral" THEN NoMatch
    ELSE IF input.tokenKind # "T_NUMERIC_LITERAL" THEN NoMatch
    ELSE IF isDouble(input.spell) \/ isFloat(input.spell) THEN NoMatch
    ELSE LET spell == input.spell
             numberLength == NumberLength(spell, Len(spell))
         IN
         IF numberLength < 1 THEN NoMatch
         ELSE LET x == SubSeq(spell, 1, numberLength)
                  parsed == IF StartsWith0b(x) THEN ParseDigits(SubSeq(x, 3, Len(x)), 2)
                            ELSE toULongBase0(x)
                  value == parsed.value
              IN
              IF ~parsed.valid THEN NoMatch
              ELSE LET priority == Len(path) - 1
                       start == startOf(LiteralToken)
                       isBinary == isBinaryLiteral(spell, numberLength)
                       isOctal == isOctalLiteral(spell, numberLength)
                       isDecimal == ~(isBinary \/ isOctal \/ isHex(spell))
                       Op(replacement, description) ==
                           ConvertNumericLiteralOp(priority, start, start + numberLength,
                                                   replacement, description)
                   IN [value |-> value,
                       ops |->
                           (IF ~isHex(spell)
                            THEN <<Op(HexReplacement(value), "Convert to Hexadecimal")>>
                            ELSE <<>>)
                           \o (IF ~isOctal
                               THEN <<Op(OctalReplacement(value), "Convert to Octal")>>
                               ELSE <<>>)
                           \o (IF ~isDecimal
                               THEN <<Op(DecimalReplacement(value), "Convert to Decimal")>>
                               ELSE <<>>)
                           \o (IF ~isBinary
                               THEN <<Op(BinaryReplacement(value), "Convert to Binary")>>
                               ELSE <<>>)]

\* ConvertNumericLiteralOp::perform: changes.replace(start, end, replacement)
\* on the text of the literal, which starts at `start`.
ConvertNumericLiteralOp_perform(spell, op) ==
    op.replacement \o SubSeq(spell, (op.end - op.start) + 1, Len(spell))

(***************************************************************************)
(* The literals ConvertNumericLiteral is given: digits with a radix prefix *)
(* and a type suffix, and floating point literals.                         *)
(***************************************************************************)
SeqsUpTo(S, n) == UNION {[1..k -> S] : k \in 0..n}

DecimalAlphabet == {"0", "1", "2", "3", "4", "5", "6", "7", "8", "9"}
HexAlphabet == {"0", "1", "9", "a", "F"}
BinaryAlphabet == {"0", "1", "2"}
Suffixes == {<<>>, <<"u">>, <<"U", "L">>, <<"l", "l">>}
FloatTails == {<<".", "5">>, <<".", "5", "f">>}

\* Decimal and octal spellings (and the malformed octal ones, such as 08).
PlainSpellings == SeqsUpTo(DecimalAlphabet, MaxDigits) \ {<<>>}

PrefixedSpellings ==
    {p \o d : p \in {<<"0", "x">>, <<"0", "X">>}, d \in SeqsUpTo(HexAlphabet, MaxDigits)}
        \cup {p \o d : p \in {<<"0", "b">>, <<"0", "B">>},
                       d \in SeqsUpTo(BinaryAlphabet, MaxDigits)}

LiteralSpellings ==
    {d \o x : d \in PlainSpellings \cup PrefixedSpellings, x \in Suffixes}
        \cup {d \o t : d \in PlainSpellings, t \in FloatTails}

LiteralPath ==
    OuterPath \o <<[kind |-> "ExpressionStatement"], [kind |-> "NumericLiteral"]>>

NumericLiteralInputs ==
    {[path |-> LiteralPath, tokenKind |-> "T_NUMERIC_LITERAL", spell |-> sp] :
        sp \in LiteralSpellings}
        \cup {[path |-> LiteralPath, tokenKind |-> "T_CHAR_LITERAL", spell |-> <<"'", "1", "'">>],
              [path |-> <<>>, tokenKind |-> "none", spell |-> <<>>],
              [path |-> OuterPath \o <<[kind |-> "ExpressionStatement"], [kind |-> "IdExpression"]>>,
               tokenKind |-> "T_IDENTIFIER", spell |-> <<"a">>]}

NumericLiteralInit ==
    /\ nlInput \in NumericLiteralInputs
    /\ nlPc = "input"
    /\ nlValue = -1
    /\ nlResult = <<>>
    /\ nlHistory = [origin |-> nlInput.spell, applied |-> <<>>]
    /\ nlOthersIdle

\* ConvertNumericLiteral::doMatch on the literal under the cursor.
NumericLiteralMatch ==
    /\ nlPc = "input"
    /\ LET m == ConvertNumericLiteral_doMatch(nlInput)
       IN nlValue' = m.value /\ nlResult' = m.ops
    /\ nlPc' = "matched"
    /\ UNCHANGED <<nlInput, nlHistory, nlOthers>>

\* The user picks one of the operations offered; perform() rewrites the
\* literal and the next match sees the new token.
NumericLiteralPerform ==
    /\ nlPc = "matched"
    /\ Len(nlHistory.applied) < MaxConversions
    /\ \E i \in 1..Len(nlResult) :
          /\ nlInput' = [nlInput EXCEPT
                            !.spell = ConvertNumericLiteralOp_perform(nlInput.spell, nlResult[i])]
          /\ nlHistory' = [nlHistory EXCEPT
                              !.applied = Append(nlHistory.applied, nlResult[i].description)]
    /\ nlPc' = "input"
    /\ nlValue' = -1
    /\ nlResult' = <<>>
    /\ UNCHANGED nlOthers

NumericLiteralNext == NumericLiteralMatch \/ NumericLiteralPerform

SpecNumericLiteral == NumericLiteralInit /\ [][NumericLiteralNext]_vars

(***************************************************************************)
(* What the claims about ConvertNumericLiteral speak of: the radix and the *)
(* value of an integer literal by the rules of the language, the type      *)
(* suffix (u, l) left aside.  The single digit 0 counts as decimal.        *)
(***************************************************************************)
RECURSIVE WithoutTypeSuffix(_)
WithoutTypeSuffix(spell) ==
    IF spell # <<>> /\ spell[Len(spell)] \in {"u", "U", "l", "L"}
    THEN WithoutTypeSuffix(SubSeq(spell, 1, Len(spell) - 1))
    ELSE spell

LiteralRadix(spell) ==
    CASE StartsWith0x(spell) -> 16
      [] StartsWith0b(spell) -> 2
      [] Len(WithoutTypeSuffix(spell)) >= 2 /\ spell[1] = "0" -> 8
      [] OTHER -> 10

LiteralDigits(spell) ==
    LET body == WithoutTypeSuffix(spell)
    IN IF LiteralRadix(spell) \in {2, 16} THEN SubSeq(body, 3, Len(body)) ELSE body

\* The literal is an integer literal whose value fits unsigned long.
LiteralParses(spell) ==
    /\ LiteralDigits(spell) # <<>>
    /\ \A i \in 1..Len(LiteralDigits(spell)) :
           DigitValue(LiteralDigits(spell)[i]) < LiteralRadix(spell)
    /\ DigitsValue(LiteralDigits(spell), LiteralRadix(spell)) <= ULONG_MAX

LiteralValue(spell) == DigitsValue(LiteralDigits(spell), LiteralRadix(spell))

ConversionOf(radix) ==
    CASE radix = 16 -> "Convert to Hexadecimal"
      [] radix = 8 -> "Convert to Octal"
      [] radix = 10 -> "Convert to Decimal"
      [] radix = 2 -> "Convert to Binary"

nlOnLiteral ==
    nlPc = "matched" /\ nlInput.path = LiteralPath /\ nlInput.tokenKind = "T_NUMERIC_LITERAL"

nlOffered == {nlResult[i].description : i \in 1..Len(nlResult)}

\* C8: for an integer literal that parses to a value, with or without a type
\* suffix, exactly three conversions are offered: those to the radixes of
\* {16, 8, 10, 2} that are not the radix of the literal, each once; for a
\* float or double literal none is offered.
C8_ConversionsOffered ==
    nlOnLiteral =>
        /\ (isFloat(nlInput.spell) \/ isDouble(nlInput.spell)) => nlResult = <<>>
        /\ (~isFloat(nlInput.spell) /\ ~isDouble(nlInput.spell) /\ LiteralParses(nlInput.spell)) =>
               /\ Len(nlResult) = 3
               /\ nlOffered = {ConversionOf(r) : r \in {16, 8, 10, 2} \ {LiteralRadix(nlInput.spell)}}

\* The octal literal 07u: hexadecimal, decimal and binary are offered.
C8_Witness ==
    /\ nlOnLiteral
    /\ nlInput.spell = <<"0", "7", "u">>
    /\ nlHistory.applied = <<>>
    /\ Len(nlResult) = 3
    /\ "Convert to Octal" \notin nlOffered

\* The first literal is the decimal spelling of a value: no prefix, no suffix,
\* no leading zero.
IsDecimalSpelling(spell) ==
    /\ spell # <<>>
    /\ \A i \in 1..Len(spell) : spell[i] \in DecimalAlphabet
    /\ Len(spell) > 1 => spell[1] # "0"

\* C9: for every value v below 2^(width of unsigned long - 1), the
\* hexadecimal replacement offered for the decimal literal of v, once it
\* replaced the literal and is matched again, parses to v and gets the
\* decimal spelling of v as its decimal replacement.
C9_DecimalHexRoundTrip ==
    (/\ nlPc = "matched"
     /\ nlHistory.applied = <<"Convert to Hexadecimal">>
     /\ IsDecimalSpelling(nlHistory.origin)
     /\ DigitsValue(nlHistory.origin, 10) < Pow2(ULongBits - 1)) =>
        /\ nlValue = DigitsValue(nlHistory.origin, 10)
        /\ \E i \in 1..Len(nlResult) :
               /\ nlResult[i].description = "Convert to Decimal"
               /\ nlResult[i].replacement = nlHistory.origin

\* 31 became 0x1F, which is matched: its value is 31 and its decimal replacement 31.
C9_Witness ==
    /\ nlPc = "matched"
    /\ nlHistory.origin = <<"3", "1">>
    /\ nlHistory.applied = <<"Convert to Hexadecimal">>
    /\ nlInput.spell = <<"0", "x", "1", "F">>
    /\ nlValue = 31

\* C10: the binary replacement is 0b followed by the binary digits of the
\* value of the literal, the first of them 1, and for the value 0 it is 0b0.
C10_BinaryNoLeadingZero ==
    (nlOnLiteral /\ LiteralParses(nlInput.spell)) =>
        \A i \in 1..Len(nlResult) :
            nlResult[i].description = "Convert to Binary" =>
                LET r == nlResult[i].replacement
                    bits == SubSeq(r, 3, Len(r))
                IN /\ SubSeq(r, 1, 2) = <<"0", "b">>
                   /\ bits # <<>>
                   /\ \A k \in 1..Len(bits) : bits[k] \in {"0", "1"}
                   /\ DigitsValue(bits, 2) = LiteralValue(nlInput.spell)
                   /\ IF LiteralValue(nlInput.spell) = 0 THEN bits = <<"0">> ELSE bits[1] = "1"

\* 0xa is offered 0b1010.
C10_Witness ==
    /\ nlOnLiteral
    /\ nlInput.spell = <<"0", "x", "a">>
    /\ \E i \in 1..Len(nlResult) :
           /\ nlResult[i].description = "Convert to Binary"
           /\ nlResult[i].replacement = <<"0", "b", "1", "0", "1", "0">>

(***************************************************************************)
(* ExtractFunction: the statements of the reference function.              *)
(*                                                                         *)
(* A statement is an expression statement (naming the local it reads, or   *)
(* "none"), a declaration statement of one local, a return statement, an   *)
(* if statement (one token for "if (c)", one for "else"), a for statement  *)
(* (one token for "for (", then the initializer and the body) or a         *)
(* compound statement (one token for each brace).                          *)
(***************************************************************************)
NullStatement == [kind |-> "null"]
ExpressionStatementAST(name) == [kind |-> "ExpressionStatement", name |-> name]
DeclarationStatementAST(name) == [kind |-> "DeclarationStatement", name |-> name]
ReturnStatementAST == [kind |-> "ReturnStatement"]
IfStatementAST(s, e) == [kind |-> "IfStatement", statement |-> s, else_statement |-> e]
ForStatementAST(i, s) == [kind |-> "ForStatement", initializer |-> i, statement |-> s]
CompoundStatementAST(l) == [kind |-> "CompoundStatement", statement_list |-> l]

\* The number of tokens a function body without locals has at most (braces of
\* the body not counted).
MaxBodyTokens == 4

\* The number of statements a function body with locals has at most.
MaxLeaves == 4

\* Bodies without locals: every control structure over plain expression
\* statements and return statements.
PlainLeaves == {ExpressionStatementAST("none"), ReturnStatementAST}
PlainInitializers == {ExpressionStatementAST("none")}

RECURSIVE StatementsOfSize(_), ListsOfSize(_)
StatementsOfSize(n) ==
    IF n <= 0 THEN {}
    ELSE IF n = 1 THEN PlainLeaves
    ELSE {IfStatementAST(s, NullStatement) : s \in StatementsOfSize(n - 1)}
         \cup UNION {{IfStatementAST(s, e) : s \in StatementsOfSize(k),
                                            e \in StatementsOfSize(n - 2 - k)} :
                     k \in 1..(n - 3)}
         \cup {ForStatementAST(i, s) : i \in PlainInitializers, s \in StatementsOfSize(n - 2)}
         \cup {CompoundStatementAST(l) : l \in ListsOfSize(n - 2)}

ListsOfSize(n) ==
    IF n = 0 THEN {<<>>}
    ELSE UNION {{<<s>> \o l : s \in StatementsOfSize(k), l \in ListsOfSize(n - k)} :
                k \in 1..n}

StructuredBodies ==
    {[param |-> "none", body |-> l] : l \in UNION {ListsOfSize(n) : n \in 0..MaxBodyTokens}}

\* Bodies with locals: declarations and uses of the names a and b, in the body
\* itself or in a block nested in it, in a function with or without a
\* parameter a.  No name is declared twice in one block, none redeclares the
\* parameter in the outermost block and every name read is declared.
LocalNames == {"a", "b"}
DataflowLeaves ==
    {DeclarationStatementAST(n) : n \in LocalNames}
        \cup {ExpressionStatementAST(n) : n \in LocalNames}

LeafLists == UNION {[1..n -> DataflowLeaves] : n \in 1..MaxLeaves}

WellFormedLocals(param, l, nested) ==
    /\ \A i, j \in 1..Len(l) :
           (i < j /\ l[i].kind = "DeclarationStatement" /\ l[j].kind = "DeclarationStatement")
               => l[i].name # l[j].name
    /\ \A j \in 1..Len(l) :
           l[j].kind = "ExpressionStatement"
               => \/ l[j].name = param
                  \/ \E i \in 1..(j - 1) :
                         l[i].kind = "DeclarationStatement" /\ l[i].name = l[j].name
    /\ nested \/ \A i \in 1..Len(l) :
                     l[i].kind = "DeclarationStatement" => l[i].name # param

DataflowBodies ==
    {[param |-> p, body |-> IF nested THEN <<CompoundStatementAST(l)>> ELSE l] :
        <<p, l, nested>> \in {x \in {"none", "a"} \X LeafLists \X BOOLEAN :
                                 WellFormedLocals(x[1], x[2], x[3])}}

\* The statements laid out on tokens, the first one on token t.
RECURSIVE Place(_, _), PlaceList(_, _)
Place(s, t) ==
    CASE s.kind = "IfStatement" ->
             LET body == Place(s.statement, t + 1)
                 els == IF s.else_statement.kind = "null" THEN NullStatement
                        ELSE Place(s.else_statement, body.last + 2)
             IN [kind |-> "IfStatement", first |-> t,
                 last |-> IF els.kind = "null" THEN body.last ELSE els.last,
                 statement |-> body, else_statement |-> els]
      [] s.kind = "ForStatement" ->
             LET init == Place(s.initializer, t + 1)
                 body == Place(s.statement, init.last + 1)
             IN [kind |-> "ForStatement", first |-> t, last |-> body.last,
                 initializer |-> init, statement |-> body]
      [] s.kind = "CompoundStatement" ->
             LET list == PlaceList(s.statement_list, t + 1)
             IN [kind |-> "CompoundStatement", first |-> t,
                 last |-> IF list = <<>> THEN t + 1 ELSE list[Len(list)].last + 1,
                 statement_list |-> list]
      [] s.kind = "ReturnStatement" ->
             [kind |-> "ReturnStatement", first |-> t, last |-> t]
      [] OTHER -> [kind |-> s.kind, name |-> s.name, first |-> t, last |-> t]

PlaceList(l, t) ==
    IF l = <<>> THEN <<>>
    ELSE LET h == Place(Head(l), t) IN <<h>> \o PlaceList(Tail(l), h.last + 1)

\* The reference function: its declarator (with the parameter, if any) is
\* token 1 and its body starts on token 2.
FunctionDefinitionAST(param, body) ==
    LET function_body == Place(CompoundStatementAST(body), 2)
    IN [kind |-> "FunctionDefinition", param |-> param, first |-> 1,
        last |-> function_body.last, function_body |-> function_body]

\* The selection: it starts at the start or the end of a token of the body
\* and ends at the end of one; an empty one is a cursor without a selection.
SelectionsOf(function) ==
    LET tokens == function.function_body.first .. function.last
    IN {<<s, e>> \in ({startOf(t) : t \in tokens} \cup {endOf(t) : t \in tokens})
                         \X {endOf(t) : t \in tokens} : s <= e}

ExtractBodies == StructuredBodies \cup DataflowBodies

(***************************************************************************)
(* FunctionExtractionAnalyser: the visitor that finds the statements to    *)
(* extract.  Its fields are the record                                     *)
(*   [m_done, m_failed, m_extractionStart, m_extractionEnd, m_knownDecls]  *)
(* where m_knownDecls is the set of the names it has a declaration for.    *)
(***************************************************************************)
NewAnalyser ==
    [m_done |-> FALSE, m_failed |-> FALSE, m_extractionStart |-> 0,
     m_extractionEnd |-> 0, m_knownDecls |-> {}]

RECURSIVE statement(_, _, _, _), accept(_, _, _, _), visitStatementList(_, _, _, _, _)

\* FunctionExtractionAnalyser::statement
statement(stmt, a, selStart, selEnd) ==
    IF stmt.kind = "null" THEN a
    ELSE LET stmtStart == startOf(stmt.first)
             stmtEnd == endOf(stmt.last)
         IN IF stmtStart >= selEnd \/ (a.m_extractionStart # 0 /\ stmtEnd > selEnd)
            THEN [a EXCEPT !.m_done = TRUE]
            ELSE LET a1 == IF stmtStart >= selStart /\ a.m_extractionStart = 0
                           THEN [a EXCEPT !.m_extractionStart = stmtStart]
                           ELSE a
                     a2 == IF stmtEnd > a1.m_extractionEnd /\ a1.m_extractionStart # 0
                           THEN [a1 EXCEPT !.m_extractionEnd = stmtEnd]
                           ELSE a1
                 IN accept(stmt, a2, selStart, selEnd)

\* AST::accept with preVisit and the visit functions of the analyser.
accept(stmt, a, selStart, selEnd) ==
    IF a.m_done THEN a
    ELSE CASE stmt.kind = "CompoundStatement" ->
                  visitStatementList(stmt.statement_list, 1, a, selStart, selEnd)
           [] stmt.kind = "ForStatement" ->
                  LET a1 == statement(stmt.initializer, a, selStart, selEnd)
                  IN IF ~a1.m_done THEN statement(stmt.statement, a1, selStart, selEnd)
                     ELSE a1
           [] stmt.kind = "IfStatement" ->
                  LET a1 == statement(stmt.statement, a, selStart, selEnd)
                  IN IF ~a1.m_done THEN statement(stmt.else_statement, a1, selStart, selEnd)
                     ELSE a1
           [] stmt.kind = "DeclarationStatement" ->
                  [a EXCEPT !.m_knownDecls = @ \cup {stmt.name}]
           [] stmt.kind = "ReturnStatement" ->
                  IF a.m_extractionStart # 0
                  THEN [a EXCEPT !.m_done = TRUE, !.m_failed = TRUE]
                  ELSE a
           [] OTHER -> a

\* FunctionExtractionAnalyser::visit(CompoundStatementAST *)
visitStatementList(list, i, a, selStart, selEnd) ==
    IF i > Len(list) THEN a
    ELSE LET a1 == statement(list[i], a, selStart, selEnd)
         IN IF a1.m_done THEN a1
            ELSE visitStatementList(list, i + 1, a1, selStart, selEnd)

\* FunctionExtractionAnalyser::operator(): the function definition is
\* accepted, which visits its body; an empty range is a failure.
FunctionExtractionAnalyser(refFunDef, selStart, selEnd) ==
    LET a == accept(refFunDef.function_body, NewAnalyser, selStart, selEnd)
    IN IF ~a.m_failed /\ a.m_extractionStart = a.m_extractionEnd
       THEN [a EXCEPT !.m_failed = TRUE]
       ELSE a

(***************************************************************************)
(* SemanticInfo::localUses: for every local symbol of the function (a      *)
(* parameter or a declared local) the positions of its uses, the           *)
(* declaration being the first.  A name is resolved to the innermost       *)
(* declaration in scope.                                                   *)
(***************************************************************************)
NoSymbol == [name |-> "none", decl |-> 0]
SymbolOf(name, tok) == [name |-> name, decl |-> tok]

Declare(stmt, scope) ==
    IF stmt.kind = "DeclarationStatement"
    THEN {s \in scope : s.name # stmt.name} \cup {SymbolOf(stmt.name, stmt.first)}
    ELSE scope

RECURSIVE UsesOf(_, _), UsesOfList(_, _, _)
UsesOf(stmt, scope) ==
    CASE stmt.kind = "DeclarationStatement" ->
             {<<SymbolOf(stmt.name, stmt.first), startOf(stmt.first)>>}
      [] stmt.kind = "ExpressionStatement" ->
             {<<s, startOf(stmt.first)>> : s \in {x \in scope : x.name = stmt.name}}
      [] stmt.kind = "CompoundStatement" -> UsesOfList(stmt.statement_list, 1, scope)
      [] stmt.kind = "IfStatement" ->
             UsesOf(stmt.statement, scope) \cup UsesOf(stmt.else_statement, scope)
      [] stmt.kind = "ForStatement" ->
             UsesOf(stmt.initializer, scope)
                 \cup UsesOf(stmt.statement, Declare(stmt.initializer, scope))
      [] OTHER -> {}

UsesOfList(list, i, scope) ==
    IF i > Len(list) THEN {}
    ELSE UsesOf(list[i], scope) \cup UsesOfList(list, i + 1, Declare(list[i], scope))

ParametersOf(function) ==
    IF function.param = "none" THEN {} ELSE {SymbolOf(function.param, function.first)}

LocalUses(function) ==
    {<<p, startOf(p.decl)>> : p \in ParametersOf(function)}
        \cup UsesOf(function.function_body, ParametersOf(function))

LocalSymbols(function) == {u[1] : u \in LocalUses(function)}

\* The orders in which a QHash may hand out its keys.
IterationOrders(keys) ==
    {order \in [1..Cardinality(keys) -> keys] :
        \A i, j \in 1..Cardinality(keys) : i # j => order[i] # order[j]}

(***************************************************************************)
(* ExtractFunction::doMatch and ExtractFunctionOperation::perform.         *)
(***************************************************************************)
ExtractFunctionOperation(extractionStart, extractionEnd, funcReturn, relevantDecls) ==
    [rule |-> "ExtractFunction", extractionStart |-> extractionStart,
     extractionEnd |-> extractionEnd, funcReturn |-> funcReturn,
     relevantDecls |-> relevantDecls]

\* Where the uses of one local lie with respect to the range of the analyser.
UsePlaces(uses, analyser) ==
    [usedBeforeExtraction |-> \E p \in uses : p < analyser.m_extractionStart,
     usedAfterExtraction |->
         \E p \in uses : p >= analyser.m_extractionStart /\ p >= analyser.m_extractionEnd,
     usedInsideExtraction |->
         \E p \in uses : p >= analyser.m_extractionStart /\ p < analyser.m_extractionEnd]

\* A loop body that keeps the last local that qualifies as the return value.
IdentifyLocalLastReturnWins(symbol, uses, analyser, refFuncParams, acc) ==
    LET u == UsePlaces(uses, analyser)
        known == symbol.name \in analyser.m_knownDecls
        isParam == (u.usedBeforeExtraction /\ u.usedInsideExtraction)
                       \/ (u.usedInsideExtraction /\ symbol.name \in refFuncParams)
        isReturn == u.usedInsideExtraction /\ u.usedAfterExtraction
                        /\ ~u.usedBeforeExtraction
        acc1 == IF isParam /\ known
                THEN [acc EXCEPT !.relevantDecls = Append(@, symbol.name)]
                ELSE acc
    IN IF (isParam \/ isReturn) /\ ~known THEN [acc EXCEPT !.returned = TRUE]
       ELSE IF isReturn
            THEN [acc1 EXCEPT !.relevantDecls =
                                  <<symbol.name>> \o (IF acc1.funcReturn = NoSymbol THEN @
                                                      ELSE Tail(@)),
                              !.funcReturn = symbol]
            ELSE acc1

\* The body of the loop over localUses for one local (lines 1832-1868):
\* acc holds funcReturn, relevantDecls and whether doMatch has returned.
IdentifyLocal(symbol, uses, analyser, refFuncParams, acc) ==
    LET u == UsePlaces(uses, analyser)
        known == symbol.name \in analyser.m_knownDecls
        acc1 == IF (u.usedBeforeExtraction /\ u.usedInsideExtraction)
                       \/ (u.usedInsideExtraction /\ symbol.name \in refFuncParams)
                THEN IF ~known THEN [acc EXCEPT !.returned = TRUE]
                     ELSE [acc EXCEPT !.relevantDecls = Append(@, symbol.name)]
                ELSE acc
    IN IF acc1.returned THEN acc1
       ELSE IF u.usedInsideExtraction /\ u.usedAfterExtraction /\ ~u.usedBeforeExtraction
            THEN IF acc1.funcReturn = NoSymbol
                 THEN IF ~known THEN [acc1 EXCEPT !.returned = TRUE]
                      ELSE [acc1 EXCEPT !.relevantDecls = <<symbol.name>> \o @,
                                        !.funcReturn = symbol]
                 ELSE [acc1 EXCEPT !.returned = TRUE]
            ELSE acc1

RECURSIVE IdentifyInterface(_, _, _, _, _, _)
IdentifyInterface(order, i, localUses, analyser, refFuncParams, acc) ==
    IF i > Len(order) \/ acc.returned THEN acc
    ELSE IdentifyInterface(order, i + 1, localUses, analyser, refFuncParams,
             IdentifyLocal(order[i], {u[2] : u \in {x \in localUses : x[1] = order[i]}},
                           analyser, refFuncParams, acc))

\* ExtractFunction::doMatch; order is the order in which localUses is iterated.
ExtractFunction_doMatch(input, order) ==
    LET path == input.path
        functions == {i \in 1..Len(path) : path[i].kind = "FunctionDefinition"}
        refFuncDef ==
            IF functions = {} THEN NoInput
            ELSE path[CHOOSE i \in functions : \A j \in functions : j <= i]
    IN IF input.selStart = input.selEnd
       THEN [analyser |-> NewAnalyser, ops |-> <<>>]
       ELSE IF refFuncDef = NoInput
               \/ refFuncDef.function_body.statement_list = <<>>
               \/ input.enclosingScope = "Template"
       THEN [analyser |-> NewAnalyser, ops |-> <<>>]
       ELSE LET selStart == IF input.selStart > input.selEnd THEN input.selEnd
                            ELSE input.selStart
                selEnd == IF input.selStart > input.selEnd THEN input.selStart
                          ELSE input.selEnd
                run == FunctionExtractionAnalyser(refFuncDef, selStart, selEnd)
            IN IF run.m_failed THEN [analyser |-> run, ops |-> <<>>]
               ELSE LET refFuncParams == {p.name : p \in ParametersOf(refFuncDef)}
                        analyser == [run EXCEPT !.m_knownDecls = @ \cup refFuncParams]
                        r == IdentifyInterface(order, 1, LocalUses(refFuncDef), analyser,
                                               refFuncParams,
                                               [funcReturn |-> NoSymbol,
                                                relevantDecls |-> <<>>,
                                                returned |-> FALSE])
                    IN [analyser |-> analyser,
                        ops |-> IF r.returned THEN <<>>
                                ELSE <<ExtractFunctionOperation(
                                           analyser.m_extractionStart,
                                           analyser.m_extractionEnd,
                                           r.funcReturn, r.relevantDecls)>>]

\* ExtractFunctionOperation::perform, as far as the interface of the new
\* function goes: its parameters and what it returns.
ExtractFunctionOperation_perform(op) ==
    [parameters |-> SubSeq(op.relevantDecls,
                           IF op.funcReturn # NoSymbol THEN 2 ELSE 1,
                           Len(op.relevantDecls)),
     returns |-> IF op.funcReturn # NoSymbol THEN op.relevantDecls[1] ELSE "void"]

\* interface.path() and refFuncDef->symbol->enclosingScope(): the cursor in
\* a function of a namespace, in a function of a template, outside of any
\* function and outside of any node.
ExtractContexts(function) ==
    {[path |-> <<[kind |-> "TranslationUnit"], function>>, enclosingScope |-> "Namespace"],
     [path |-> <<[kind |-> "TranslationUnit"], [kind |-> "TemplateDeclaration"], function>>,
      enclosingScope |-> "Template"],
     [path |-> <<[kind |-> "TranslationUnit"]>>, enclosingScope |-> "Namespace"],
     [path |-> <<>>, enclosingScope |-> "Namespace"]}

ExtractInit ==
    /\ \E b \in ExtractBodies :
           LET function == FunctionDefinitionAST(b.param, b.body)
           IN \E sel \in SelectionsOf(function) : \E context \in ExtractContexts(function) :
                  efInput = [function |-> function, selStart |-> sel[1], selEnd |-> sel[2],
                             path |-> context.path,
                             enclosingScope |-> context.enclosingScope]
    /\ efPc = "input"
    /\ efAnalyser = NoInput
    /\ efResult = <<>>
    /\ efPerformed = NoInput
    /\ efOthersIdle

ExtractMatch ==
    /\ efPc = "input"
    /\ \E order \in IterationOrders(LocalSymbols(efInput.function)) :
           LET m == ExtractFunction_doMatch(efInput, order)
           IN efAnalyser' = m.analyser /\ efResult' = m.ops
    /\ efPc' = "matched"
    /\ UNCHANGED <<efInput, efPerformed, efOthers>>

\* The user picks the operation offered.
ExtractPerform ==
    /\ efPc = "matched"
    /\ efResult # <<>>
    /\ efPerformed' = ExtractFunctionOperation_perform(efResult[1])
    /\ efPc' = "performed"
    /\ UNCHANGED <<efInput, efAnalyser, efResult, efOthers>>

ExtractNext == ExtractMatch \/ ExtractPerform

SpecExtract == ExtractInit /\ [][ExtractNext]_vars

(***************************************************************************)
(* Properties of ExtractFunction.                                          *)
(***************************************************************************)
efMatched == efPc \in {"matched", "performed"}
efOffered == efMatched /\ efResult # <<>>

RECURSIVE StatementsIn(_), StatementsInList(_, _)
StatementsIn(stmt) ==
    CASE stmt.kind = "null" -> {}
      [] stmt.kind = "CompoundStatement" ->
             {stmt} \cup StatementsInList(stmt.statement_list, 1)
      [] stmt.kind = "IfStatement" ->
             {stmt} \cup StatementsIn(stmt.statement) \cup StatementsIn(stmt.else_statement)
      [] stmt.kind = "ForStatement" ->
             {stmt} \cup StatementsIn(stmt.initializer) \cup StatementsIn(stmt.statement)
      [] OTHER -> {stmt}

StatementsInList(list, i) ==
    IF i > Len(list) THEN {}
    ELSE StatementsIn(list[i]) \cup StatementsInList(list, i + 1)

\* The statements of the body of the reference function, nested ones included.
efStatements == StatementsInList(efInput.function.function_body.statement_list, 1)

\* The statement lies partly inside [from, to): it overlaps the range, is not
\* inside it and does not enclose it.
PartlyInside(stmt, from, to) ==
    /\ startOf(stmt.first) < to /\ endOf(stmt.last) > from
    /\ ~(from <= startOf(stmt.first) /\ endOf(stmt.last) <= to)
    /\ ~(startOf(stmt.first) <= from /\ to <= endOf(stmt.last))

efRangeSplitsStatement ==
    \E stmt \in efStatements :
        PartlyInside(stmt, efResult[1].extractionStart, efResult[1].extractionEnd)

\* C4: whenever ExtractFunction offers an operation, its range covers the
\* selection (extractionStart <= selStart, selEnd <= extractionEnd), both
\* bounds are statement boundaries and no statement lies only partly inside
\* the range.
C4_RangeCoversSelectionWithWholeStatements ==
    efOffered =>
        /\ efResult[1].extractionStart <= efInput.selStart
        /\ efInput.selEnd <= efResult[1].extractionEnd
        /\ \E stmt \in efStatements : startOf(stmt.first) = efResult[1].extractionStart
        /\ \E stmt \in efStatements : endOf(stmt.last) = efResult[1].extractionEnd
        /\ ~efRangeSplitsStatement

\* C5: whenever a return statement lies inside the candidate range of the
\* analyser (it starts at or after extractionStart and ends at or before
\* extractionEnd), doMatch appends no operation.
C5_NoOperationWithReturnInRange ==
    (/\ efMatched
     /\ \E stmt \in efStatements :
            /\ stmt.kind = "ReturnStatement"
            /\ startOf(stmt.first) >= efAnalyser.m_extractionStart
            /\ endOf(stmt.last) <= efAnalyser.m_extractionEnd)
        => efResult = <<>>

efUsesOf(symbol) ==
    {u[2] : u \in {x \in LocalUses(efInput.function) : x[1] = symbol}}

\* The locals used inside the range of the analyser and after it, not before it.
efReturnCandidates ==
    {s \in LocalSymbols(efInput.function) :
        LET u == UsePlaces(efUsesOf(s), efAnalyser)
        IN u.usedInsideExtraction /\ u.usedAfterExtraction /\ ~u.usedBeforeExtraction}

\* The locals used before the range of the analyser and inside it.
efParameterCandidates ==
    {s \in LocalSymbols(efInput.function) :
        LET u == UsePlaces(efUsesOf(s), efAnalyser)
        IN u.usedBeforeExtraction /\ u.usedInsideExtraction}

\* C6: with more than one local that qualifies as the return value no
\* operation is offered; an operation offered has the one local that
\* qualifies as its return value, and none (the new function returns void)
\* when no local qualifies.
C6_AtMostOneReturnValue ==
    efMatched =>
        /\ Cardinality(efReturnCandidates) > 1 => efResult = <<>>
        /\ efResult # <<>> =>
               IF efReturnCandidates = {} THEN efResult[1].funcReturn = NoSymbol
               ELSE efResult[1].funcReturn \in efReturnCandidates
        /\ efPc = "performed" =>
               IF efReturnCandidates = {} THEN efPerformed.returns = "void"
               ELSE \E s \in efReturnCandidates : efPerformed.returns = s.name

\* Two locals are declared in the range and read after it: nothing is offered.
C6_Witness ==
    /\ efMatched
    /\ ~efAnalyser.m_failed
    /\ efAnalyser.m_extractionStart # 0
    /\ Cardinality(efReturnCandidates) = 2
    /\ efResult = <<>>

\* C7: the parameters of the function perform() writes are exactly the locals
\* used before and inside the range, each once; it returns the local used
\* inside and after the range and not before it, if there is one.
C7_ParametersAndReturnValue ==
    efPc = "performed" =>
        /\ \A n \in LocalNames :
               Cardinality({i \in 1..Len(efPerformed.parameters) :
                                efPerformed.parameters[i] = n})
                   = Cardinality({s \in efParameterCandidates : s.name = n})
        /\ IF efReturnCandidates = {} THEN efPerformed.returns = "void"
           ELSE \E s \in efReturnCandidates : efPerformed.returns = s.name

(***************************************************************************)
(* ExtractLiteralAsParameter::doMatch.  The context is a cursor on a token *)
(* of a function body: `path` is the ancestor path, `function` the         *)
(* enclosing FunctionDefinitionAST (when the path has one).                *)
(***************************************************************************)
MaxNesting == 2
MaxParams == 1

\* The nodes ExtractLiteralAsParameter accepts as the last node of the path.
LiteralKinds == {"NumericLiteral", "StringLiteral", "BoolLiteral"}

\* The token under the cursor with the node the parser makes of it.
CursorTokens ==
    {[kind |-> "NumericLiteral", tokenKind |-> "T_NUMERIC_LITERAL", spell |-> sp] :
        sp \in {<<"7">>, <<"0", "7">>, <<"0", "x", "F">>, <<"0", "b", "1">>,
                <<"0", "8">>, <<"1", ".", "5">>}}
        \cup {[kind |-> "StringLiteral", tokenKind |-> "T_STRING_LITERAL",
               spell |-> <<"\"", "a", "\"">>],
              [kind |-> "BoolLiteral", tokenKind |-> "T_TRUE",
               spell |-> <<"t", "r", "u", "e">>],
              [kind |-> "IdExpression", tokenKind |-> "T_IDENTIFIER", spell |-> <<"a">>]}

RECURSIVE Compounds(_)
Compounds(n) ==
    IF n = 0 THEN <<>> ELSE <<[kind |-> "CompoundStatement"]>> \o Compounds(n - 1)

\* interface.path() of a token inside a function body, inside a lambda of
\* the body, or in the initializer of a global variable.
BodyPath(nesting, leaf) ==
    <<[kind |-> "TranslationUnit"], [kind |-> "FunctionDefinition"]>>
        \o Compounds(nesting + 1)
        \o <<[kind |-> "ExpressionStatement"], [kind |-> leaf]>>

LambdaPath(nesting, leaf) ==
    <<[kind |-> "TranslationUnit"], [kind |-> "FunctionDefinition"]>>
        \o Compounds(nesting + 1)
        \o <<[kind |-> "ExpressionStatement"], [kind |-> "LambdaExpression"],
             [kind |-> "CompoundStatement"], [kind |-> "ExpressionStatement"],
             [kind |-> leaf]>>

GlobalPath(leaf) ==
    <<[kind |-> "TranslationUnit"], [kind |-> "SimpleDeclaration"],
      [kind |-> "Declarator"], [kind |-> leaf]>>

ContextPaths(leaf) ==
    {BodyPath(n, leaf) : n \in 0..MaxNesting}
        \cup {LambdaPath(n, leaf) : n \in 0..MaxNesting}
        \cup {GlobalPath(leaf), <<[kind |-> leaf]>>, <<>>}

\* FunctionDefinitionAST: declarator->postfix_declarator_list, the number of
\* parameters of its parameter_declaration_clause and its dot_dot_dot_token.
FunctionDefinitions ==
    [postfix_declarator_list : {<<>>, <<"FunctionDeclarator">>},
     parameters : 0..MaxParams,
     dot_dot_dot_token : BOOLEAN]

ExtractLiteralAsParameterOp(priority, literal, function) ==
    [rule |-> "ExtractLiteralAsParameter", priority |-> priority,
     literal |-> literal, function |-> function,
     description |-> "Extract Constant as Function Parameter"]

\* The loop that looks for the enclosing function from path.at(i) upwards:
\* the index of the FunctionDefinitionAST, -1 when a lambda or the root
\* comes first (indices count from 0 as in the source).
RECURSIVE EnclosingFunction(_, _)
EnclosingFunction(path, i) ==
    IF path[i + 1].kind = "FunctionDefinition" THEN i
    ELSE IF path[i + 1].kind = "LambdaExpression" THEN -1
    ELSE IF i - 1 < 0 THEN -1
    ELSE EnclosingFunction(path, i - 1)

ExtractLiteralAsParameter_doMatch(input) ==
    LET path == input.path IN
    IF Len(path) < 2 THEN <<>>
    ELSE IF path[Len(path)].kind \notin LiteralKinds THEN <<>>
    ELSE IF EnclosingFunction(path, Len(path) - 2) < 0 THEN <<>>
    ELSE LET function == input.function
             declaratorList == function.postfix_declarator_list
         IN
         IF declaratorList = <<>> THEN <<>>
         ELSE IF declaratorList[1] = "FunctionDeclarator" /\ function.dot_dot_dot_token
              THEN <<>>
         ELSE <<ExtractLiteralAsParameterOp(Len(path) - 1, input.spell, function)>>

(***************************************************************************)
(* The registry of factories and the dispatch of one context to them.      *)
(* createCppQuickFixes constructs the factories; each constructor appends  *)
(* the factory to g_cppQuickFixFactories.  The loop over the registry and  *)
(* the ordering of the collected operations belong to the caller           *)
(* (the quick-fix assist processor).                                       *)
(***************************************************************************)

\* ApplyDeclDefLinkOperation: CppQuickFixOperation(interface, 100).
ApplyDeclDefLinkOperation(link) ==
    [rule |-> "ApplyDeclDefLinkChanges", priority |-> 100, link |-> link,
     description |-> "Apply Function Signature Changes"]

\* ApplyDeclDefLinkChanges::doMatch reads the editor's link, not the path.
ApplyDeclDefLinkChanges_doMatch(input) ==
    LET link == input.declDefLink IN
    IF link = "null" \/ link # "markerVisible" THEN <<>>
    ELSE <<ApplyDeclDefLinkOperation(link)>>

\* The factories of the model in the order createCppQuickFixes constructs
\* them, each with its m_clangdReplacement (0: none is set).
cppQuickFixFactories ==
    <<[rule |-> "ConvertNumericLiteral", m_clangdReplacement |-> 0],
      [rule |-> "ApplyDeclDefLinkChanges", m_clangdReplacement |-> 0],
      [rule |-> "ExtractLiteralAsParameter", m_clangdReplacement |-> 0]>>

doMatch(factory, input) ==
    CASE factory.rule = "ConvertNumericLiteral" -> ConvertNumericLiteral_doMatch(input).ops
      [] factory.rule = "ApplyDeclDefLinkChanges" -> ApplyDeclDefLinkChanges_doMatch(input)
      [] factory.rule = "ExtractLiteralAsParameter" -> ExtractLiteralAsParameter_doMatch(input)

CppQuickFixFactory_matchSkipping(factory, input, result) ==
    IF factory.rule = "ExtractLiteralAsParameter" THEN result
    ELSE result \o doMatch(factory, input)

\* CppQuickFixFactory::match: a factory that clangd replaces from some
\* version on is skipped when the document's clangd is at least that version.
CppQuickFixFactory_match(factory, input, result) ==
    IF factory.m_clangdReplacement # 0
        /\ input.clangdVersion # 0
        /\ input.clangdVersion >= factory.m_clangdReplacement
    THEN result
    ELSE result \o doMatch(factory, input)

\* The caller's ordering: a stable sort by priority, highest first.
RECURSIVE InsertByPriority(_, _)
InsertByPriority(sorted, op) ==
    IF sorted = <<>> THEN <<op>>
    ELSE IF Head(sorted).priority >= op.priority
         THEN <<Head(sorted)>> \o InsertByPriority(Tail(sorted), op)
         ELSE <<op>> \o sorted

RECURSIVE StableSortByPriority(_)
StableSortByPriority(ops) ==
    IF ops = <<>> THEN <<>>
    ELSE InsertByPriority(StableSortByPriority(SubSeq(ops, 1, Len(ops) - 1)), ops[Len(ops)])

\* The contexts of the dispatch: a token of CursorTokens under the cursor.
DeclDefLinks == {"null", "markerHidden", "markerVisible"}
ClangdVersions == {0, 17}

\* The function of a context: the FunctionDefinitionAST of its path, if any.
FunctionsOf(path) ==
    IF \E i \in 1..Len(path) : path[i].kind = "FunctionDefinition"
    THEN FunctionDefinitions
    ELSE {NoInput}

DispatchInit ==
    /\ \E token \in CursorTokens : \E path \in ContextPaths(token.kind) :
         \E function \in FunctionsOf(path) : \E link \in DeclDefLinks :
           \E clangd \in ClangdVersions :
             dpContext = [path |-> path, tokenKind |-> token.tokenKind, spell |-> token.spell,
                          function |-> function, declDefLink |-> link,
                          clangdVersion |-> clangd]
    /\ dpPc = "matching"
    /\ dpNext = 1
    /\ dpResult = <<>>
    /\ dpPresented = <<>>
    /\ dpOthersIdle

\* One turn of the caller's loop: the next factory of the registry matches.
DispatchMatch ==
    /\ dpPc = "matching"
    /\ dpNext <= Len(cppQuickFixFactories)
    /\ dpResult' = CppQuickFixFactory_match(cppQuickFixFactories[dpNext], dpContext, dpResult)
    /\ dpNext' = dpNext + 1
    /\ UNCHANGED <<dpContext, dpPc, dpPresented, dpOthers>>

\* All factories were asked: the caller orders what it collected.
DispatchPresent ==
    /\ dpPc = "matching"
    /\ dpNext > Len(cppQuickFixFactories)
    /\ dpPresented' = StableSortByPriority(dpResult)
    /\ dpPc' = "presented"
    /\ UNCHANGED <<dpContext, dpNext, dpResult, dpOthers>>

DispatchNext == DispatchMatch \/ DispatchPresent

SpecDispatch == DispatchInit /\ [][DispatchNext]_vars

(***************************************************************************)
(* Claims about the priorities of the operations of one context.           *)
(***************************************************************************)
dpOpsOf(rule) == {i \in 1..Len(dpResult) : dpResult[i].rule = rule}

\* C11 (as stated): every operation of ConvertNumericLiteral has priority
\* path.size()-1 and no operation of another rule for the same context has
\* a greater priority.
C11_NumericLiteralAlwaysHighest ==
    \A i \in dpOpsOf("ConvertNumericLiteral") :
        /\ dpResult[i].priority = Len(dpContext.path) - 1
        /\ \A j \in 1..Len(dpResult) : dpResult[j].priority <= dpResult[i].priority

\* C11 (amended): every operation of ConvertNumericLiteral has priority
\* path.size()-1; no operation of a rule that takes its priority from the
\* path has a greater one, while the operation of ApplyDeclDefLinkChanges
\* has the fixed priority 100 and so comes before it on every path of at
\* most 100 nodes.
C11_HighestAmongPathPriorities ==
    \A i \in dpOpsOf("ConvertNumericLiteral") :
        /\ dpResult[i].priority = Len(dpContext.path) - 1
        /\ \A j \in 1..Len(dpResult) :
              IF dpResult[j].rule = "ApplyDeclDefLinkChanges"
              THEN dpResult[j].priority = 100
                   /\ (Len(dpContext.path) <= 100
                          => dpResult[j].priority > dpResult[i].priority)
              ELSE dpResult[j].priority <= dpResult[i].priority

C11_Witness ==
    /\ dpPc = "presented"
    /\ dpOpsOf("ConvertNumericLiteral") # {}
    /\ dpOpsOf("ApplyDeclDefLinkChanges") # {}
    /\ dpOpsOf("ExtractLiteralAsParameter") # {}

(***************************************************************************)
(* Source text and ChangeSet.  A text is a sequence of characters;         *)
(* position p is the gap before character p + 1.  Every token is one       *)
(* character that is no white space.  A ChangeSet is the list of the       *)
(* primitives appended to it; apply converts them to replacements read     *)
(* from the one snapshot of the text and carries them out in turn, moving  *)
(* the positions of the pending ones.                                      *)
(***************************************************************************)
WhiteSpace == {" ", "\n"}

\* The positions at which the tokens of the text start (token 1 first).
RECURSIVE TokenPositions(_, _)
TokenPositions(text, p) ==
    IF p >= Len(text) THEN <<>>
    ELSE (IF text[p + 1] \in WhiteSpace THEN <<>> ELSE <<p>>) \o TokenPositions(text, p + 1)

\* A file: its text and the table of its tokens.
File(text) == [text |-> text, tokens |-> TokenPositions(text, 0)]

\* CppRefactoringFile::startOf / endOf of a token of the file.
startOfToken(file, tok) == file.tokens[tok]
endOfToken(file, tok) == file.tokens[tok] + 1

textAt(text, pos, length) == SubSeq(text, pos + 1, pos + length)

\* The primitives; every one is an EditOp with pos1, length1, pos2, length2, text.
EditOp(type, pos1, length1, pos2, length2, text) ==
    [type |-> type, pos1 |-> pos1, length1 |-> length1,
     pos2 |-> pos2, length2 |-> length2, text |-> text]
Insert(pos, text) == EditOp("Insert", pos, 0, 0, 0, text)
Remove(start, end) == EditOp("Remove", start, end - start, 0, 0, <<>>)
Replace(start, end, text) == EditOp("Replace", start, end - start, 0, 0, text)
Move(start, end, to) == EditOp("Move", start, end - start, to, 0, <<>>)
Copy(start, end, to) == EditOp("Copy", start, end - start, to, 0, <<>>)
Flip(start1, end1, start2, end2) ==
    EditOp("Flip", start1, end1 - start1, start2, end2 - start2, <<>>)

\* The ranges of the text a primitive rewrites (a copy only reads its range)
\* and the positions at which it puts text.
SourceRanges(op) ==
    CASE op.type \in {"Remove", "Replace", "Move"} -> {<<op.pos1, op.length1>>}
      [] op.type = "Flip" -> {<<op.pos1, op.length1>>, <<op.pos2, op.length2>>}
      [] OTHER -> {}

TargetPositions(op) ==
    CASE op.type = "Insert" -> {op.pos1}
      [] op.type \in {"Move", "Copy"} -> {op.pos2}
      [] OTHER -> {}

\* Two ranges intersect when they share a character.
overlaps(a, b) == a[2] > 0 /\ b[2] > 0 /\ a[1] < b[1] + b[2] /\ b[1] < a[1] + a[2]

\* A position collides with a range when it lies strictly inside it.
inside(pos, a) == pos > a[1] /\ pos < a[1] + a[2]

\* A copy out of, or a move or copy to the start of, a range that another
\* primitive moves is a composition with that move and no overlap.
hasOverlap(ops) ==
    \/ \E i, j \in 1..Len(ops) :
          /\ i # j
          /\ \/ \E a \in SourceRanges(ops[i]), b \in SourceRanges(ops[j]) :
                    i < j /\ overlaps(a, b)
             \/ \E p \in TargetPositions(ops[i]), b \in SourceRanges(ops[j]) : inside(p, b)
    \/ \E i \in 1..Len(ops) :
          /\ ops[i].type = "Flip"
          /\ overlaps(<<ops[i].pos1, ops[i].length1>>, <<ops[i].pos2, ops[i].length2>>)

\* ChangeSet::convertToReplace: the replacements a primitive stands for.
convertToReplace(text, op) ==
    CASE op.type = "Replace" -> <<[pos1 |-> op.pos1, length1 |-> op.length1, text |-> op.text]>>
      [] op.type = "Move" ->
            <<[pos1 |-> op.pos1, length1 |-> op.length1, text |-> <<>>],
              [pos1 |-> op.pos2, length1 |-> 0, text |-> textAt(text, op.pos1, op.length1)]>>
      [] op.type = "Insert" -> <<[pos1 |-> op.pos1, length1 |-> 0, text |-> op.text]>>
      [] op.type = "Remove" -> <<[pos1 |-> op.pos1, length1 |-> op.length1, text |-> <<>>]>>
      [] op.type = "Flip" ->
            <<[pos1 |-> op.pos1, length1 |-> op.length1,
               text |-> textAt(text, op.pos2, op.length2)],
              [pos1 |-> op.pos2, length1 |-> op.length2,
               text |-> textAt(text, op.pos1, op.length1)]>>
      [] op.type = "Copy" ->
            <<[pos1 |-> op.pos2, length1 |-> 0, text |-> textAt(text, op.pos1, op.length1)]>>

RECURSIVE convertAll(_, _)
convertAll(text, ops) ==
    IF ops = <<>> THEN <<>>
    ELSE convertToReplace(text, Head(ops)) \o convertAll(text, Tail(ops))

\* The offset tracking of apply: the pending replacements at or after the
\* place of `op` move by the text it puts in, those after it also by the
\* text it takes out.
Shifted(op, c) ==
    LET grown == IF op.pos1 <= c.pos1 THEN c.pos1 + Len(op.text) ELSE c.pos1
    IN [c EXCEPT !.pos1 = IF op.pos1 < c.pos1 THEN grown - op.length1 ELSE grown]

RECURSIVE doReplaceAll(_, _)
doReplaceAll(text, replaceList) ==
    IF replaceList = <<>> THEN text
    ELSE LET op == Head(replaceList)
             rest == [i \in 1..(Len(replaceList) - 1) |-> Shifted(op, replaceList[i + 1])]
         IN doReplaceAll(SubSeq(text, 1, op.pos1) \o op.text
                             \o SubSeq(text, op.pos1 + op.length1 + 1, Len(text)),
                         rest)

\* apply() without the check for overlaps.
applyUnchecked(text, ops) ==
    [ok |-> TRUE, text |-> doReplaceAll(text, convertAll(text, ops))]

\* ChangeSet::apply: an overlap is found before anything is rewritten and
\* leaves the text as it was; otherwise every primitive is carried out.
apply(text, ops) ==
    IF hasOverlap(ops) THEN [ok |-> FALSE, text |-> text]
    ELSE [ok |-> TRUE, text |-> doReplaceAll(text, convertAll(text, ops))]

(***************************************************************************)
(* SplitSimpleDeclaration.  The file holds one simple declaration          *)
(*     { specifiers declarator , declarator ... ; }                        *)
(* in the body of a function; token 1 is the brace of the innermost block. *)
(***************************************************************************)
MaxDeclarators == 3

\* Specifier lists: T, const T, an enum specifier, a class specifier, none.
SpecifierLists ==
    {<<>>,
     <<[kind |-> "NamedTypeSpecifier", spell |-> "T"]>>,
     <<[kind |-> "SimpleSpecifier", spell |-> "c"],
       [kind |-> "NamedTypeSpecifier", spell |-> "T"]>>,
     <<[kind |-> "EnumSpecifier", spell |-> "E"]>>,
     <<[kind |-> "ClassSpecifier", spell |-> "S"]>>}

\* The spellings of a declarator named n: n, *n, n=1.
DeclaratorShapes == {"plain", "pointer", "initialized"}
DeclaratorNames == <<"a", "b", "d", "e", "f">>
DeclaratorTokens(shape, n) ==
    CASE shape = "pointer" -> <<"*", n>>
      [] shape = "initialized" -> <<n, "=", "1">>
      [] OTHER -> <<n>>

RECURSIVE JoinDeclarators(_, _)
JoinDeclarators(shapes, i) ==
    IF i > Len(shapes) THEN <<>>
    ELSE (IF i = 1 THEN <<>> ELSE <<",", " ">>)
             \o DeclaratorTokens(shapes[i], DeclaratorNames[i])
             \o JoinDeclarators(shapes, i + 1)

RECURSIVE JoinSpecifiers(_)
JoinSpecifiers(specifiers) ==
    IF specifiers = <<>> THEN <<>>
    ELSE <<Head(specifiers).spell, " ">> \o JoinSpecifiers(Tail(specifiers))

DeclarationText(specifiers, shapes, semicolon) ==
    <<"{", " ">> \o JoinSpecifiers(specifiers) \o JoinDeclarators(shapes, 1)
        \o (IF semicolon THEN <<";">> ELSE <<>>) \o <<" ", "}", "\n">>

\* The first token of declarator i and the token after its last one.
RECURSIVE DeclaratorFirstToken(_, _, _)
DeclaratorFirstToken(shapes, i, first) ==
    IF i = 1 THEN first
    ELSE DeclaratorFirstToken(shapes, i - 1, first)
             + Len(DeclaratorTokens(shapes[i - 1], "a")) + 1

\* SimpleDeclarationAST with the token indices of its parts; an absent
\* semicolon has token index 0.
SimpleDeclarationAST(specifiers, shapes, semicolon) ==
    LET firstDeclTok == 2 + Len(specifiers)
        Declarator(i) ==
            LET first == DeclaratorFirstToken(shapes, i, firstDeclTok)
            IN [kind |-> "Declarator", firstToken |-> first,
                lastToken |-> first + Len(DeclaratorTokens(shapes[i], "a")),
                core_declarator |->
                    [kind |-> "DeclaratorId",
                     firstToken |-> IF shapes[i] = "pointer" THEN first + 1 ELSE first,
                     lastToken |-> IF shapes[i] = "pointer" THEN first + 2 ELSE first + 1]]
        declarators == [i \in 1..Len(shapes) |-> Declarator(i)]
        afterDeclarators == IF shapes = <<>> THEN firstDeclTok
                            ELSE declarators[Len(shapes)].lastToken
    IN [kind |-> "SimpleDeclaration",
        decl_specifier_list |->
            [i \in 1..Len(specifiers) |->
                [kind |-> specifiers[i].kind, firstToken |-> 1 + i, lastToken |-> 2 + i]],
        declarator_list |-> declarators,
        semicolon_token |-> IF semicolon THEN afterDeclarators ELSE 0,
        firstToken |-> 2,
        lastToken |-> IF semicolon THEN afterDeclarators + 1 ELSE afterDeclarators]

\* CppRefactoringFile::startOf / endOf of a node; a node holds the cursor
\* when the cursor is between the two, ends included.
startOfAST(file, ast) == startOfToken(file, ast.firstToken)
endOfAST(file, ast) == endOfToken(file, ast.lastToken - 1)
HoldsCursor(file, ast, cursor) ==
    /\ ast.lastToken > ast.firstToken
    /\ cursor >= startOfAST(file, ast) /\ cursor <= endOfAST(file, ast)

\* interface.path(): the nodes around the declaration, the declaration and
\* below it the specifier or the declarator (and its core) under the cursor;
\* no node when the cursor is on the empty line after the last token.
SplitDeclarationPath(file, declaration, nesting, cursor) ==
    LET outer == <<[kind |-> "TranslationUnit"], [kind |-> "FunctionDefinition"]>>
                     \o Compounds(nesting + 1)
        specs == declaration.decl_specifier_list
        decls == declaration.declarator_list
        Under(list) == {i \in 1..Len(list) : HoldsCursor(file, list[i], cursor)}
        First(S) == CHOOSE i \in S : \A j \in S : i <= j
    IN IF cursor > endOfToken(file, Len(file.tokens)) THEN <<>>
       ELSE IF ~HoldsCursor(file, declaration, cursor) THEN outer
       ELSE outer \o <<[kind |-> "DeclarationStatement"], declaration>>
            \o (IF Under(specs) # {} THEN <<specs[First(Under(specs))]>>
                ELSE IF Under(decls) # {}
                THEN LET d == decls[First(Under(decls))]
                     IN <<d>> \o (IF HoldsCursor(file, d.core_declarator, cursor)
                                  THEN <<d.core_declarator>> ELSE <<>>)
                ELSE <<>>)

\* checkDeclarationForSplit without the loop over the specifiers.
checkDeclarationForSplitAnySpecifier(declaration) ==
    IF declaration.semicolon_token = 0 THEN FALSE
    ELSE IF declaration.decl_specifier_list = <<>> THEN FALSE
    ELSE Len(declaration.declarator_list) >= 2

checkDeclarationForSplit(declaration) ==
    IF declaration.semicolon_token = 0 THEN FALSE
    ELSE IF declaration.decl_specifier_list = <<>> THEN FALSE
    ELSE IF \E i \in 1..Len(declaration.decl_specifier_list) :
                declaration.decl_specifier_list[i].kind \in {"EnumSpecifier", "ClassSpecifier"}
         THEN FALSE
    ELSE Len(declaration.declarator_list) >= 2

SplitSimpleDeclarationOp(priority, decl) ==
    [rule |-> "SplitSimpleDeclaration", priority |-> priority, declaration |-> decl,
     description |-> "Split Declaration"]

\* The loop of doMatch from the innermost node upwards; index counts from 0
\* as in the source, core_declarator is the source's local ("null": none).
RECURSIVE SplitSimpleDeclarationScan(_, _, _, _, _)
SplitSimpleDeclarationScan(file, path, cursorPosition, index, core_declarator) ==
    IF index = -1 THEN <<>>
    ELSE LET node == path[index + 1] IN
         IF node.kind = "DeclaratorId"
         THEN SplitSimpleDeclarationScan(file, path, cursorPosition, index - 1, node)
         ELSE IF node.kind = "SimpleDeclaration"
         THEN IF checkDeclarationForSplit(node)
              THEN LET specifiers == node.decl_specifier_list
                       startOfDeclSpecifier == startOfToken(file, specifiers[1].firstToken)
                       endOfDeclSpecifier ==
                           endOfToken(file, specifiers[Len(specifiers)].lastToken - 1)
                   IN IF cursorPosition >= startOfDeclSpecifier
                          /\ cursorPosition <= endOfDeclSpecifier
                      THEN <<SplitSimpleDeclarationOp(index, node)>>
                      ELSE IF core_declarator.kind # "null"
                              /\ HoldsCursor(file, core_declarator, cursorPosition)
                      THEN <<SplitSimpleDeclarationOp(index, node)>>
                      ELSE <<>>
              ELSE <<>>
         ELSE SplitSimpleDeclarationScan(file, path, cursorPosition, index - 1, core_declarator)

SplitSimpleDeclaration_doMatch(input) ==
    SplitSimpleDeclarationScan(input.file, input.path, input.cursor,
                               Len(input.path) - 1, [kind |-> "null"])

\* SplitSimpleDeclarationOp::perform: the primitives of its ChangeSet.
RECURSIVE SplitChanges(_, _, _, _, _, _)
SplitChanges(file, declaration, i, declSpecifiersStart, declSpecifiersEnd, insertPos) ==
    IF i > Len(declaration.declarator_list) THEN <<>>
    ELSE LET declarator == declaration.declarator_list[i]
             prevDeclarator == declaration.declarator_list[i - 1]
         IN <<Insert(insertPos, <<"\n">>),
              Copy(declSpecifiersStart, declSpecifiersEnd, insertPos),
              Insert(insertPos, <<" ">>),
              Move(startOfAST(file, declarator), endOfAST(file, declarator), insertPos),
              Insert(insertPos, <<";">>),
              Remove(endOfAST(file, prevDeclarator), startOfAST(file, declarator))>>
            \o SplitChanges(file, declaration, i + 1,
                            declSpecifiersStart, declSpecifiersEnd, insertPos)

\* perform() copying the first specifier only.
SplitSimpleDeclarationOp_performFirstSpecifier(file, op) ==
    LET declaration == op.declaration
        specifiers == declaration.decl_specifier_list
        declSpecifiersStart == startOfToken(file, specifiers[1].firstToken)
        declSpecifiersEnd == endOfToken(file, specifiers[1].lastToken - 1)
        insertPos == endOfToken(file, declaration.semicolon_token)
    IN SplitChanges(file, declaration, 2, declSpecifiersStart, declSpecifiersEnd, insertPos)

SplitSimpleDeclarationOp_perform(file, op) ==
    LET declaration == op.declaration
        specifiers == declaration.decl_specifier_list
        declSpecifiersStart == startOfToken(file, specifiers[1].firstToken)
        declSpecifiersEnd == endOfToken(file, specifiers[Len(specifiers)].lastToken - 1)
        insertPos == endOfToken(file, declaration.semicolon_token)
    IN SplitChanges(file, declaration, 2, declSpecifiersStart, declSpecifiersEnd, insertPos)

ShapeLists == UNION {[1..n -> DeclaratorShapes] : n \in 0..MaxDeclarators}

SplitDeclarationInit ==
    /\ \E specifiers \in SpecifierLists : \E shapes \in ShapeLists :
         \E nesting \in 0..MaxNesting :
         \E semicolon \in (IF nesting = 0 THEN BOOLEAN ELSE {TRUE}) :
           LET file == File(DeclarationText(specifiers, shapes, semicolon))
               declaration == SimpleDeclarationAST(specifiers, shapes, semicolon)
           IN \E cursor \in 0..Len(file.text) :
                sdInput = [file |-> file, declaration |-> declaration, cursor |-> cursor,
                           path |-> SplitDeclarationPath(file, declaration, nesting, cursor)]
    /\ sdPc = "input"
    /\ sdResult = <<>>
    /\ sdChanges = <<>>
    /\ sdText = <<>>
    /\ sdOthersIdle

SplitDeclarationMatch ==
    /\ sdPc = "input"
    /\ sdResult' = SplitSimpleDeclaration_doMatch(sdInput)
    /\ sdPc' = "matched"
    /\ UNCHANGED <<sdInput, sdChanges, sdText, sdOthers>>

\* The user picks the operation: perform() builds the ChangeSet and
\* currentFile->apply() rewrites the file.
SplitDeclarationPerform ==
    /\ sdPc = "matched"
    /\ \E i \in 1..Len(sdResult) :
          LET changes == SplitSimpleDeclarationOp_perform(sdInput.file, sdResult[i])
          IN /\ sdChanges' = changes
             /\ sdText' = apply(sdInput.file.text, changes).text
    /\ sdPc' = "performed"
    /\ UNCHANGED <<sdInput, sdResult, sdOthers>>

SplitDeclarationNext == SplitDeclarationMatch \/ SplitDeclarationPerform

SpecSplitDeclaration == SplitDeclarationInit /\ [][SplitDeclarationNext]_vars

(***************************************************************************)
(* MoveDeclarationOutOfIf and MoveDeclarationOutOfWhile.  The file holds   *)
(*     { i(cond) w(cond) ... s; }                                          *)
(* a row of nested if (i) and while (w) statements, each the body of the   *)
(* one before; a condition is a declaration T a=b, T a or T *=b (no core   *)
(* declarator), or the expression a.                                       *)
(***************************************************************************)
MaxConditions == 2

ConditionKinds == {"initialized", "uninitialized", "abstract", "expression"}
ConditionTokens(kind) ==
    CASE kind = "initialized" -> <<"T", " ", "a", "=", "b">>
      [] kind = "uninitialized" -> <<"T", " ", "a">>
      [] kind = "abstract" -> <<"T", "*", "=", "b">>
      [] OTHER -> <<"a">>

\* levels: the statements from the outermost on, each [keyword, condition].
RECURSIVE ControlText(_)
ControlText(levels) ==
    IF levels = <<>> THEN <<"s", ";">>
    ELSE <<Head(levels).keyword, "(">> \o ConditionTokens(Head(levels).condition)
             \o <<")", " ">> \o ControlText(Tail(levels))

\* ConditionAST (or the expression) whose first token is t.
ConditionAt(kind, t) ==
    CASE kind = "expression" -> [kind |-> "IdExpression", firstToken |-> t, lastToken |-> t + 1]
      [] kind = "initialized" ->
            [kind |-> "Condition", firstToken |-> t, lastToken |-> t + 4,
             declarator |-> [kind |-> "Declarator", firstToken |-> t + 1, lastToken |-> t + 4,
                             core_declarator |-> [kind |-> "DeclaratorId", firstToken |-> t + 1,
                                                  lastToken |-> t + 2],
                             equal_token |-> t + 2, initializer |-> TRUE]]
      [] kind = "uninitialized" ->
            [kind |-> "Condition", firstToken |-> t, lastToken |-> t + 2,
             declarator |-> [kind |-> "Declarator", firstToken |-> t + 1, lastToken |-> t + 2,
                             core_declarator |-> [kind |-> "DeclaratorId", firstToken |-> t + 1,
                                                  lastToken |-> t + 2],
                             equal_token |-> 0, initializer |-> FALSE]]
      [] kind = "abstract" ->
            [kind |-> "Condition", firstToken |-> t, lastToken |-> t + 4,
             declarator |-> [kind |-> "Declarator", firstToken |-> t + 1, lastToken |-> t + 4,
                             core_declarator |-> [kind |-> "null"],
                             equal_token |-> t + 2, initializer |-> TRUE]]

RECURSIVE ControlAt(_, _)
ControlAt(levels, t) ==
    IF levels = <<>>
    THEN [kind |-> "ExpressionStatement", firstToken |-> t, lastToken |-> t + 2]
    ELSE LET condition == ConditionAt(Head(levels).condition, t + 2)
             body == ControlAt(Tail(levels), condition.lastToken + 1)
         IN [kind |-> IF Head(levels).keyword = "i" THEN "IfStatement" ELSE "WhileStatement",
             firstToken |-> t, lastToken |-> body.lastToken,
             condition |-> condition, statement |-> body]

RECURSIVE ControlPath(_, _, _)
ControlPath(file, stmt, cursor) ==
    IF ~HoldsCursor(file, stmt, cursor) THEN <<>>
    ELSE <<stmt>> \o
         (IF stmt.kind \notin {"IfStatement", "WhileStatement"} THEN <<>>
          ELSE IF HoldsCursor(file, stmt.condition, cursor)
          THEN <<stmt.condition>> \o
               (IF stmt.condition.kind = "Condition"
                   /\ HoldsCursor(file, stmt.condition.declarator, cursor)
                THEN <<stmt.condition.declarator>> \o
                     (IF stmt.condition.declarator.core_declarator.kind # "null"
                         /\ HoldsCursor(file, stmt.condition.declarator.core_declarator, cursor)
                      THEN <<stmt.condition.declarator.core_declarator>>
                      ELSE <<>>)
                ELSE <<>>)
          ELSE ControlPath(file, stmt.statement, cursor))

\* The operation as its constructor leaves it when setPriority is not called.
MoveDeclarationOpDefaultPriority(rule, priority, pattern) ==
    [rule |-> rule, priority |-> -1, pattern |-> pattern,
     condition |-> pattern.condition, core |-> pattern.condition.declarator.core_declarator,
     description |-> "Move Declaration out of Condition"]

\* The operation after op->setPriority(index).
MoveDeclarationOp(rule, priority, pattern) ==
    [rule |-> rule, priority |-> priority, pattern |-> pattern,
     condition |-> pattern.condition, core |-> pattern.condition.declarator.core_declarator,
     description |-> "Move Declaration out of Condition"]

\* The loops of MoveDeclarationOutOfIf::doMatch and of
\* MoveDeclarationOutOfWhile::doMatch; index counts from 0 as in the source.
RECURSIVE MoveDeclarationOutOfIfScan(_, _, _, _)
MoveDeclarationOutOfIfScan(file, path, cursor, index) ==
    IF index = -1 THEN <<>>
    ELSE LET ifOrWhile == path[index + 1] IN
         IF ifOrWhile.kind = "IfStatement" /\ ifOrWhile.condition.kind = "Condition"
         THEN LET core == ifOrWhile.condition.declarator.core_declarator IN
              IF core.kind = "null" THEN <<>>
              ELSE IF HoldsCursor(file, core, cursor)
              THEN <<MoveDeclarationOp("MoveDeclarationOutOfIf", index, ifOrWhile)>>
              ELSE MoveDeclarationOutOfIfScan(file, path, cursor, index - 1)
         ELSE MoveDeclarationOutOfIfScan(file, path, cursor, index - 1)

RECURSIVE MoveDeclarationOutOfWhileScan(_, _, _, _)
MoveDeclarationOutOfWhileScan(file, path, cursor, index) ==
    IF index = -1 THEN <<>>
    ELSE LET ifOrWhile == path[index + 1] IN
         IF ifOrWhile.kind = "WhileStatement" /\ ifOrWhile.condition.kind = "Condition"
         THEN LET declarator == ifOrWhile.condition.declarator
                  core == declarator.core_declarator
              IN
              IF core.kind = "null" THEN <<>>
              ELSE IF declarator.equal_token = 0 THEN <<>>
              ELSE IF ~declarator.initializer THEN <<>>
              ELSE IF HoldsCursor(file, core, cursor)
              THEN <<MoveDeclarationOp("MoveDeclarationOutOfWhile", index, ifOrWhile)>>
              ELSE MoveDeclarationOutOfWhileScan(file, path, cursor, index - 1)
         ELSE MoveDeclarationOutOfWhileScan(file, path, cursor, index - 1)

MoveDeclaration_doMatch(input) ==
    IF input.rule = "MoveDeclarationOutOfIf"
    THEN MoveDeclarationOutOfIfScan(input.file, input.path, input.cursor, Len(input.path) - 1)
    ELSE MoveDeclarationOutOfWhileScan(input.file, input.path, input.cursor,
                                       Len(input.path) - 1)

\* MoveDeclarationOutOfIfOp::perform: the primitives of its ChangeSet.
MoveDeclarationOutOfIfOp_perform(file, op) ==
    LET insertPos == startOfAST(file, op.pattern)
    IN <<Copy(startOfAST(file, op.core), endOfAST(file, op.core),
              startOfAST(file, op.condition)),
         Move(startOfAST(file, op.condition), endOfAST(file, op.condition), insertPos),
         Insert(insertPos, <<";", "\n">>)>>

\* MoveDeclarationOutOfWhileOp::perform: the primitives of its ChangeSet.
MoveDeclarationOutOfWhileOp_perform(file, op) ==
    LET insertPos == startOfAST(file, op.pattern)
        conditionStart == startOfAST(file, op.condition)
    IN <<Insert(startOfAST(file, op.condition), <<"(">>),
         Insert(endOfAST(file, op.condition), <<")", " ", "!", "=", " ", "0">>),
         Move(conditionStart, startOfAST(file, op.core), insertPos),
         Copy(startOfAST(file, op.core), endOfAST(file, op.core), insertPos),
         Insert(insertPos, <<";", "\n">>)>>

ControlLevels ==
    UNION {[1..n -> [keyword : {"i", "w"}, condition : ConditionKinds]] : n \in 1..MaxConditions}

MoveDeclarationInit ==
    /\ \E rule \in {"MoveDeclarationOutOfIf", "MoveDeclarationOutOfWhile"} :
         \E levels \in ControlLevels :
           LET file == File(<<"{", " ">> \o ControlText(levels) \o <<" ", "}">>)
               stmt == ControlAt(levels, 2)
           IN \E cursor \in 0..Len(file.text) :
                mdInput = [rule |-> rule, file |-> file, cursor |-> cursor,
                           path |-> <<[kind |-> "TranslationUnit"],
                                      [kind |-> "FunctionDefinition"],
                                      [kind |-> "CompoundStatement"]>>
                                        \o ControlPath(file, stmt, cursor)]
    /\ mdPc = "input"
    /\ mdResult = <<>>
    /\ mdChanges = <<>>
    /\ mdOthersIdle

MoveDeclarationMatch ==
    /\ mdPc = "input"
    /\ mdResult' = MoveDeclaration_doMatch(mdInput)
    /\ mdPc' = "matched"
    /\ UNCHANGED <<mdInput, mdChanges, mdOthers>>

MoveDeclarationPerform ==
    /\ mdPc = "matched"
    /\ \E i \in 1..Len(mdResult) :
          mdChanges' = IF mdResult[i].rule = "MoveDeclarationOutOfIf"
                       THEN MoveDeclarationOutOfIfOp_perform(mdInput.file, mdResult[i])
                       ELSE MoveDeclarationOutOfWhileOp_perform(mdInput.file, mdResult[i])
    /\ mdPc' = "performed"
    /\ UNCHANGED <<mdInput, mdResult, mdOthers>>

MoveDeclarationNext == MoveDeclarationMatch \/ MoveDeclarationPerform

SpecMoveDeclaration == MoveDeclarationInit /\ [][MoveDeclarationNext]_vars

(***************************************************************************)
(* CompleteSwitchCaseStatement.  A switch statement holds the enum its     *)
(* condition resolves to (<<>>: no enum) and its body; the body is a       *)
(* compound statement of case statements and other statements, a single    *)
(* case statement, or missing.                                             *)
(***************************************************************************)
MaxEnumerators == 3
MaxCases == 2

EnumeratorNames == <<"A", "B", "C", "D", "E">>

\* Enum::memberAt: the enumerators in declaration order; `repeated` gives
\* the second enumerator the value of the first.
Enum(n, repeated) ==
    [i \in 1..n |-> [name |-> EnumeratorNames[i],
                     value |-> IF repeated /\ i >= 2 THEN i - 2 ELSE i - 1]]

Enums == {Enum(1, FALSE), Enum(MaxEnumerators, FALSE), Enum(MaxEnumerators, TRUE)}

\* The expression of a case label: an enumerator or another constant k as
\* a plain identifier, a parenthesised enumerator, a number; default has none.
CaseLabels ==
    {[kind |-> "IdExpression", name |-> EnumeratorNames[i]] : i \in 1..MaxEnumerators}
        \cup {[kind |-> "IdExpression", name |-> "k"],
              [kind |-> "NestedExpression", name |-> "A"],
              [kind |-> "NumericLiteral", name |-> "0"],
              [kind |-> "null", name |-> ""]}

BreakStatementAST == [kind |-> "BreakStatement"]
CaseStatementAST(expression, stmt) ==
    [kind |-> "CaseStatement", expression |-> expression, statement |-> stmt]
SwitchCompoundAST(lbrace, list) ==
    [kind |-> "CompoundStatement", lbrace_token |-> lbrace, statement_list |-> list]
SwitchStatementAST(symbol, enum, body) ==
    [kind |-> "SwitchStatement", symbol |-> symbol, enum |-> enum, statement |-> body]

\* Bodies of plain case labels and breaks.
CaseItems == {CaseStatementAST(l, BreakStatementAST) : l \in CaseLabels}
                 \cup {BreakStatementAST}
PlainCaseLists == UNION {[1..n -> CaseItems] : n \in 0..MaxCases}

\* case A: case B: break;  and  case A: switch (y) { case B: break; }
ChainedCases ==
    <<CaseStatementAST([kind |-> "IdExpression", name |-> "A"], CaseStatementAST([kind |-> "IdExpression", name |-> "B"], BreakStatementAST))>>
NestedSwitch(enum) ==
    <<CaseStatementAST([kind |-> "IdExpression", name |-> "A"],
          SwitchStatementAST(TRUE, enum,
              SwitchCompoundAST(10, <<CaseStatementAST([kind |-> "IdExpression", name |-> "B"], BreakStatementAST)>>)))>>

SwitchBodies(enum) ==
    {SwitchCompoundAST(5, l) : l \in PlainCaseLists \cup {ChainedCases, NestedSwitch(enum)}}
        \cup {CaseStatementAST([kind |-> "IdExpression", name |-> "A"], BreakStatementAST), [kind |-> "null"]}

\* The children ASTVisitor::accept walks into, statements only.
SwitchChildren(ast) ==
    CASE ast.kind = "SwitchStatement" ->
            IF ast.statement.kind = "null" THEN <<>> ELSE <<ast.statement>>
      [] ast.kind = "CompoundStatement" -> ast.statement_list
      [] ast.kind = "CaseStatement" -> <<ast.statement>>
      [] OTHER -> <<>>

\* CaseStatementCollector: preVisit on every node in the order accept
\* reaches it; c holds foundCaseStatementLevel and values.
RECURSIVE CollectorAccept(_, _)
RECURSIVE CollectorAcceptList(_, _, _)
CollectorAccept(ast, c) ==
    IF ast.kind = "CaseStatement"
    THEN LET csExpression == ast.expression
             values == IF csExpression.kind = "IdExpression"
                       THEN Append(c.values, csExpression.name)
                       ELSE c.values
         IN CollectorAcceptList(SwitchChildren(ast), 1,
                                [foundCaseStatementLevel |-> TRUE, values |-> values])
    ELSE IF c.foundCaseStatementLevel THEN c
    ELSE CollectorAcceptList(SwitchChildren(ast), 1, c)

CollectorAcceptList(list, i, c) ==
    IF i > Len(list) THEN c
    ELSE CollectorAcceptList(list, i + 1, CollectorAccept(list[i], c))

CaseStatementCollector(ast) ==
    CollectorAccept(ast, [foundCaseStatementLevel |-> FALSE, values |-> <<>>]).values

\* QStringList::removeAll for each used value.
RECURSIVE RemoveUsed(_, _)
RemoveUsed(values, usedValues) ==
    IF values = <<>> THEN <<>>
    ELSE (IF \E i \in 1..Len(usedValues) : usedValues[i] = Head(values)
          THEN <<>> ELSE <<Head(values)>>)
             \o RemoveUsed(Tail(values), usedValues)

CompleteSwitchCaseStatementOp(priority, compoundStatement, values) ==
    [rule |-> "CompleteSwitchCaseStatement", priority |-> priority,
     compoundStatement |-> compoundStatement, values |-> values,
     description |-> "Complete Switch Statement"]

\* The loop of doMatch that looks for the switch statement, innermost first.
RECURSIVE CompleteSwitchCaseScan(_, _)
CompleteSwitchCaseScan(path, depth) ==
    IF depth < 0 THEN <<>>
    ELSE LET switchStatement == path[depth + 1] IN
         IF switchStatement.kind # "SwitchStatement"
         THEN CompleteSwitchCaseScan(path, depth - 1)
         ELSE IF switchStatement.statement.kind = "null" \/ ~switchStatement.symbol THEN <<>>
         ELSE IF switchStatement.statement.kind # "CompoundStatement" THEN <<>>
         ELSE IF switchStatement.enum = <<>> THEN <<>>
         ELSE LET e == switchStatement.enum
                  members == [i \in 1..Len(e) |-> e[i].name]
                  usedValues == CaseStatementCollector(switchStatement)
                  values == RemoveUsed(members, usedValues)
              IN IF values # <<>>
                 THEN <<CompleteSwitchCaseStatementOp(depth, switchStatement.statement, values)>>
                 ELSE <<>>

CompleteSwitchCaseStatement_doMatch(input) ==
    IF input.path = <<>> THEN <<>>
    ELSE CompleteSwitchCaseScan(input.path, Len(input.path) - 1)

\* values.join(":\nbreak;\ncase ")
RECURSIVE JoinCases(_)
JoinCases(values) ==
    IF Len(values) = 1 THEN <<values[1]>>
    ELSE <<values[1], ":", "\n", "break", ";", "\n", "case", " ">> \o JoinCases(Tail(values))

\* CompleteSwitchCaseStatementOp::perform: the primitives of its ChangeSet.
CompleteSwitchCaseStatementOp_perform(op) ==
    LET start == endOf(op.compoundStatement.lbrace_token)
    IN <<Insert(start, <<"\n", "case", " ">> \o JoinCases(op.values)
                           \o <<":", "\n", "break", ";">>)>>

\* Every chain of nodes from the statement down to one of its nodes.
RECURSIVE SwitchPaths(_)
SwitchPaths(ast) ==
    {<<ast>>} \cup
        UNION {{<<ast>> \o p : p \in SwitchPaths(SwitchChildren(ast)[i])}
                  : i \in 1..Len(SwitchChildren(ast))}

SwitchInit ==
    /\ \E enum \in Enums \cup {<<>>} : \E nesting \in 0..MaxNesting :
         \E symbol \in (IF nesting = 0 THEN BOOLEAN ELSE {TRUE}) :
         \E body \in SwitchBodies(enum) :
           LET outer == <<[kind |-> "TranslationUnit"], [kind |-> "FunctionDefinition"]>>
                            \o Compounds(nesting + 1)
           IN \E p \in SwitchPaths(SwitchStatementAST(symbol, enum, body)) \cup {<<>>} :
                swInput = [path |-> IF p = <<>> THEN <<>> ELSE outer \o p]
    /\ swPc = "input"
    /\ swResult = <<>>
    /\ swChanges = <<>>
    /\ swOthersIdle

SwitchMatch ==
    /\ swPc = "input"
    /\ swResult' = CompleteSwitchCaseStatement_doMatch(swInput)
    /\ swPc' = "matched"
    /\ UNCHANGED <<swInput, swChanges, swOthers>>

SwitchPerform ==
    /\ swPc = "matched"
    /\ \E i \in 1..Len(swResult) :
          swChanges' = CompleteSwitchCaseStatementOp_perform(swResult[i])
    /\ swPc' = "performed"
    /\ UNCHANGED <<swInput, swResult, swOthers>>

SwitchNext == SwitchMatch \/ SwitchPerform

SpecSwitch == SwitchInit /\ [][SwitchNext]_vars

(***************************************************************************)
(* The rules that hand the index of the matched node to their operation:   *)
(* SplitSimpleDeclaration, MoveDeclarationOutOfIf/While and                *)
(* CompleteSwitchCaseStatement, each on its own inputs.                    *)
(***************************************************************************)
PathPriorityInit == SplitDeclarationInit \/ MoveDeclarationInit \/ SwitchInit

PathPriorityNext == SplitDeclarationNext \/ MoveDeclarationNext \/ SwitchNext

SpecPathPriority == PathPriorityInit /\ [][PathPriorityNext]_vars

\* The node of the path an operation's priority points at (indices from 0).
NodeAtPriority(path, op) ==
    IF op.priority >= 0 /\ op.priority < Len(path)
    THEN path[op.priority + 1] ELSE [kind |-> "null"]

\* C12: the priority of an operation of SplitSimpleDeclaration,
\* MoveDeclarationOutOfIf/While or CompleteSwitchCaseStatement is the index
\* in the ancestor path of the node the rule matched (the declaration, the
\* if or while statement, the switch statement), so it lies in
\* 0..path.size()-1 and grows with the depth of the matched node.
C12_PriorityIsIndexOfMatchedNode ==
    /\ \A i \in 1..Len(sdResult) :
          NodeAtPriority(sdInput.path, sdResult[i]) = sdResult[i].declaration
    /\ \A i \in 1..Len(mdResult) :
          NodeAtPriority(mdInput.path, mdResult[i]) = mdResult[i].pattern
    /\ \A i \in 1..Len(swResult) :
          LET node == NodeAtPriority(swInput.path, swResult[i])
          IN node.kind = "SwitchStatement"
                 /\ node.statement = swResult[i].compoundStatement

\* A switch inside a case of another switch is matched: its operation has
\* the higher index of the two switch statements of the path.
C12_Witness ==
    /\ swPc = "matched"
    /\ swResult # <<>>
    /\ \E j \in 1..Len(swInput.path) :
          /\ swInput.path[j].kind = "SwitchStatement"
          /\ j - 1 < swResult[1].priority

(***************************************************************************)
(* Claims about CompleteSwitchCaseStatement.                               *)
(***************************************************************************)
\* The switch statement the rule looks at: the innermost one of the path.
swSwitches == {j \in 1..Len(swInput.path) : swInput.path[j].kind = "SwitchStatement"}
swSwitch == swInput.path[CHOOSE j \in swSwitches : \A k \in swSwitches : k <= j]

\* The case labels of a switch: those of the case statements of its body
\* and of the case statements they label in turn, not those of a switch
\* nested in them.
RECURSIVE LabelsOfCase(_)
LabelsOfCase(ast) ==
    IF ast.kind # "CaseStatement" THEN <<>>
    ELSE <<ast.expression>> \o LabelsOfCase(ast.statement)

RECURSIVE LabelsOfList(_, _)
LabelsOfList(list, i) ==
    IF i > Len(list) THEN <<>> ELSE LabelsOfCase(list[i]) \o LabelsOfList(list, i + 1)

LabelsOfSwitch(switch) ==
    CASE switch.statement.kind = "CompoundStatement" ->
            LabelsOfList(switch.statement.statement_list, 1)
      [] switch.statement.kind = "CaseStatement" -> LabelsOfCase(switch.statement)
      [] OTHER -> <<>>

\* The enumerators no label of the given kinds names, in declaration order.
RECURSIVE MissingFrom(_, _, _)
MissingFrom(enum, labels, kinds) ==
    IF enum = <<>> THEN <<>>
    ELSE (IF \E i \in 1..Len(labels) :
                 labels[i].kind \in kinds /\ labels[i].name = Head(enum).name
          THEN <<>> ELSE <<Head(enum).name>>)
             \o MissingFrom(Tail(enum), labels, kinds)

RECURSIVE CaseBlocks(_)
CaseBlocks(names) ==
    IF names = <<>> THEN <<>>
    ELSE <<"\n", "case", " ", Head(names), ":", "\n", "break", ";">> \o CaseBlocks(Tail(names))

\* What is offered and inserted when `missing` are the enumerators to add.
swOffers(missing) ==
    IF missing = <<>> THEN swResult = <<>>
    ELSE /\ Len(swResult) = 1
         /\ swResult[1].values = missing
         /\ swPc = "performed" =>
               swChanges = <<Insert(endOf(swSwitch.statement.lbrace_token),
                                    CaseBlocks(missing))>>

\* C13: for a switch with a compound body whose condition resolves to an
\* enum one operation inserts a case X: break; block for exactly the
\* enumerators no case label of the switch names, in declaration order, and
\* none is offered when all are named; a label names X as X or as (X).
C13_MissingEnumeratorsOffered ==
    (swPc # "input" /\ swSwitches # {} /\ swSwitch.symbol /\ swSwitch.enum # <<>>
        /\ swSwitch.statement.kind = "CompoundStatement") =>
        swOffers(MissingFrom(swSwitch.enum, LabelsOfSwitch(swSwitch),
                             {"IdExpression", "NestedExpression"}))

\* C13, what the code does: the same where a label names an enumerator only
\* when it is the plain identifier; a switch with another body, without
\* symbol or with a condition that is no enum gets no operation.
C13_MissingPlainLabelsOffered ==
    (swPc # "input" /\ swSwitches # {}) =>
        IF swSwitch.symbol /\ swSwitch.enum # <<>>
              /\ swSwitch.statement.kind = "CompoundStatement"
        THEN swOffers(MissingFrom(swSwitch.enum, LabelsOfSwitch(swSwitch), {"IdExpression"}))
        ELSE swResult = <<>>

\* enum { A, B = A, C } with case A: present: B and C are inserted.
C13_Witness ==
    /\ swPc = "performed"
    /\ swSwitch.enum = Enum(MaxEnumerators, TRUE)
    /\ LabelsOfSwitch(swSwitch) = <<[kind |-> "IdExpression", name |-> "A"]>>
    /\ swResult[1].values = SubSeq(EnumeratorNames, 2, MaxEnumerators)
    /\ swChanges # <<>>

(***************************************************************************)
(* ExtractLiteralAsParameterOp::perform.  Texts are rows of strings.       *)
(* The current file holds, when the declaration is in the same file,       *)
(*     T f ( P a ) ;                                                       *)
(* and then the definition                                                 *)
(*     T f ( P a ) { lit ; lit ; }                                         *)
(* a declaration in another file starts that file.                         *)
(***************************************************************************)
\* The number of literals of the function body besides the one under the cursor.
MaxLiterals == 1

\* Literal tokens: Token::spell() of a string or character literal is the
\* text between the quotes.
ElLiterals ==
    {[kind |-> "NumericLiteral", tokenKind |-> "T_NUMERIC_LITERAL", spell |-> <<"7">>],
     [kind |-> "NumericLiteral", tokenKind |-> "T_NUMERIC_LITERAL", spell |-> <<"8">>],
     [kind |-> "NumericLiteral", tokenKind |-> "T_CHAR_LITERAL", spell |-> <<"7">>],
     [kind |-> "StringLiteral", tokenKind |-> "T_STRING_LITERAL", spell |-> <<"7">>],
     [kind |-> "StringLiteral", tokenKind |-> "T_WIDE_STRING_LITERAL", spell |-> <<"7">>],
     [kind |-> "BoolLiteral", tokenKind |-> "T_TRUE", spell |-> <<"true">>]}

\* The literals the body holds besides the one under the cursor.
ElOtherLiterals ==
    {t \in ElLiterals : t.spell = <<"7">> /\ t.tokenKind # "T_WIDE_STRING_LITERAL"}

ElCursorTokens ==
    ElLiterals \cup {[kind |-> "IdExpression", tokenKind |-> "T_IDENTIFIER", spell |-> <<"a">>]}

\* Token::isCharLiteral, Token::isStringLiteral.
isCharLiteral(token) ==
    token.tokenKind \in {"T_CHAR_LITERAL", "T_WIDE_CHAR_LITERAL",
                         "T_UTF16_CHAR_LITERAL", "T_UTF32_CHAR_LITERAL"}
isStringLiteral(token) ==
    token.tokenKind \in {"T_STRING_LITERAL", "T_WIDE_STRING_LITERAL",
                         "T_UTF16_STRING_LITERAL", "T_UTF32_STRING_LITERAL"}

\* m_typeName after deduceTypeNameOfLiteral: empty when the lookup finds nothing.
TypeNames(token) ==
    {<<>>,
     CASE token.kind = "StringLiteral" -> <<"const char", " ", "*">>
       [] token.kind = "BoolLiteral" -> <<"bool">>
       [] isCharLiteral(token) -> <<"char">>
       [] OTHER -> <<"int">>}

\* What findDeclaration returns: no declarator, one of the current file or
\* one of another file.
Declarations == {"none", "sameFile", "otherFile"}

ParameterTokens(function) ==
    IF function.parameters = 0 THEN 0 ELSE 3 * function.parameters - 1

\* The first token of the definition and the tokens of the two declarators.
DefinitionStart(input) ==
    IF input.declaration = "sameFile" THEN 5 + ParameterTokens(input.function) ELSE 0

FunctionDeclaratorAST(function, first) ==
    [kind |-> "FunctionDeclarator", parameters |-> function.parameters,
     lparen_token |-> first + 2,
     rparen_token |-> first + 3 + ParameterTokens(function)]

functionDeclarator(input) ==
    IF \E i \in 1..Len(input.function.postfix_declarator_list) :
           input.function.postfix_declarator_list[i] = "FunctionDeclarator"
    THEN FunctionDeclaratorAST(input.function, DefinitionStart(input))
    ELSE NoInput

\* findDeclaration: the declarator found (ast, null when none) and its file.
findDeclaration(input) ==
    IF input.declaration = "none" THEN [ast |-> NoInput, file |-> "none"]
    ELSE [ast |-> FunctionDeclaratorAST(input.function, 0),
          file |-> IF input.declaration = "sameFile" THEN "current" ELSE "other"]

\* The token of the i-th literal of the function body.
BodyLiteralToken(input, i) ==
    functionDeclarator(input).rparen_token + 2 * i

\* ReplaceLiterals<T>: m_result.literalText.
literalText(token) ==
    IF isCharLiteral(token)
    THEN (CASE token.tokenKind = "T_WIDE_CHAR_LITERAL" -> <<"L">>
            [] token.tokenKind = "T_UTF16_CHAR_LITERAL" -> <<"u">>
            [] token.tokenKind = "T_UTF32_CHAR_LITERAL" -> <<"U">>
            [] OTHER -> <<>>) \o <<"'">> \o token.spell \o <<"'">>
    ELSE IF isStringLiteral(token)
    THEN (CASE token.tokenKind = "T_WIDE_STRING_LITERAL" -> <<"L">>
            [] token.tokenKind = "T_UTF16_STRING_LITERAL" -> <<"u">>
            [] token.tokenKind = "T_UTF32_STRING_LITERAL" -> <<"U">>
            [] OTHER -> <<>>) \o <<"\"">> \o token.spell \o <<"\"">>
    ELSE token.spell

\* ReplaceLiterals<T>::visit over the literals of the body, from the i-th
\* on: a literal of class T is replaced when it is m_literal or spelled as it.
RECURSIVE ReplaceLiterals(_, _)
ReplaceLiterals(input, i) ==
    IF i > Len(input.body) THEN <<>>
    ELSE LET ast == input.body[i]
             m_literal == input.body[input.cursorAt]
         IN
         (IF ast.kind # m_literal.kind THEN <<>>
          ELSE IF i # input.cursorAt /\ ast.spell # m_literal.spell THEN <<>>
          ELSE <<Replace(startOf(BodyLiteralToken(input, i)),
                         endOf(BodyLiteralToken(input, i)), <<"newParameter">>)>>)
             \o ReplaceLiterals(input, i + 1)

hasParameters(ast) == ast.parameters > 0

parameterDeclarationTextToInsert(ast, m_typeName) ==
    (IF hasParameters(ast) THEN <<", ">> ELSE <<>>)
        \o m_typeName
        \o (IF m_typeName # <<>> /\ m_typeName[Len(m_typeName)] = "*" THEN <<>> ELSE <<" ">>)
        \o <<"newParameter">>

\* appendFunctionParameter with the default value added to both lists.
appendFunctionParameterWithDefault(m, ast, changes, addDefaultValue) ==
    IF ast = NoInput THEN [m EXCEPT !.changes = changes]
    ELSE LET m_declarationInsertionString ==
                 IF m.m_declarationInsertionString = <<>>
                 THEN parameterDeclarationTextToInsert(ast, m.m_typeName)
                 ELSE m.m_declarationInsertionString
         IN [m EXCEPT !.m_declarationInsertionString = m_declarationInsertionString,
                      !.changes = Append(changes,
                          Insert(startOf(ast.rparen_token),
                                 m_declarationInsertionString \o <<" = ">> \o m.literalText))]

\* appendFunctionParameter: m holds the members of the operation; the
\* result is m with the insertion string cached and with the ChangeSet
\* `changes` grown by the insertion.
appendFunctionParameter(m, ast, changes, addDefaultValue) ==
    IF ast = NoInput THEN [m EXCEPT !.changes = changes]
    ELSE LET m_declarationInsertionString ==
                 IF m.m_declarationInsertionString = <<>>
                 THEN parameterDeclarationTextToInsert(ast, m.m_typeName)
                 ELSE m.m_declarationInsertionString
             insertion ==
                 m_declarationInsertionString
                     \o (IF addDefaultValue THEN <<" = ">> \o m.literalText ELSE <<>>)
         IN [m EXCEPT !.m_declarationInsertionString = m_declarationInsertionString,
                      !.changes = Append(changes, Insert(startOf(ast.rparen_token), insertion))]

\* perform(): the ChangeSet of the current file and the one of the
\* declaration's file.
ExtractLiteralAsParameterOp_perform(input) ==
    LET functionDeclaratorOfDefinition == functionDeclarator(input)
        m0 == [m_typeName |-> input.typeName,
               m_declarationInsertionString |-> <<>>,
               literalText |-> literalText(input.body[input.cursorAt]),
               changes |-> <<>>]
        replaced == ReplaceLiterals(input, 1)
        functionDeclaration == findDeclaration(input)
        m1 == appendFunctionParameter(m0, functionDeclaratorOfDefinition, replaced,
                                      functionDeclaration.ast = NoInput)
    IN
    IF functionDeclaration.ast # NoInput
    THEN IF functionDeclaration.file # "current"
         THEN [changes |-> m1.changes,
               declChanges |-> appendFunctionParameter(m1, functionDeclaration.ast,
                                                       <<>>, TRUE).changes]
         ELSE [changes |-> appendFunctionParameter(m1, functionDeclaration.ast,
                                                   m1.changes, TRUE).changes,
               declChanges |-> <<>>]
    ELSE [changes |-> m1.changes, declChanges |-> <<>>]

\* The literals of a function body: up to MaxLiterals literals and the one
\* under the cursor among them.
InsertAt(seq, i, x) == SubSeq(seq, 1, i - 1) \o <<x>> \o SubSeq(seq, i, Len(seq))

ExtractLiteralInit ==
    /\ \E token \in ElCursorTokens : \E path \in ContextPaths(token.kind) :
         \E function \in FunctionsOf(path) : \E declaration \in Declarations :
           \E typeName \in TypeNames(token) : \E n \in 0..MaxLiterals :
             \E others \in [1..n -> ElOtherLiterals] : \E cursorAt \in 1..(n + 1) :
                elInput = [path |-> path, tokenKind |-> token.tokenKind,
                           spell |-> token.spell, function |-> function,
                           declaration |-> declaration, typeName |-> typeName,
                           body |-> InsertAt(others, cursorAt, token),
                           cursorAt |-> cursorAt]
    /\ elPc = "input"
    /\ elResult = <<>>
    /\ elChanges = <<>>
    /\ elDeclChanges = <<>>
    /\ elOthersIdle

ExtractLiteralMatch ==
    /\ elPc = "input"
    /\ elResult' = ExtractLiteralAsParameter_doMatch(elInput)
    /\ elPc' = "matched"
    /\ UNCHANGED <<elInput, elChanges, elDeclChanges, elOthers>>

ExtractLiteralPerform ==
    /\ elPc = "matched"
    /\ elResult # <<>>
    /\ LET done == ExtractLiteralAsParameterOp_perform(elInput) IN
         /\ elChanges' = done.changes
         /\ elDeclChanges' = done.declChanges
    /\ elPc' = "performed"
    /\ UNCHANGED <<elInput, elResult, elOthers>>

ExtractLiteralNext == ExtractLiteralMatch \/ ExtractLiteralPerform

SpecExtractLiteral == ExtractLiteralInit /\ [][ExtractLiteralNext]_vars

(***************************************************************************)
(* Claims about ExtractLiteralAsParameterOp::perform.                      *)
(***************************************************************************)
\* The literal under the cursor as it is written in the source.
elLiteralSource ==
    LET token == elInput.body[elInput.cursorAt] IN
    CASE token.tokenKind = "T_CHAR_LITERAL" -> <<"'">> \o token.spell \o <<"'">>
      [] token.tokenKind = "T_STRING_LITERAL" -> <<"\"">> \o token.spell \o <<"\"">>
      [] token.tokenKind = "T_WIDE_STRING_LITERAL" -> <<"L", "\"">> \o token.spell \o <<"\"">>
      [] OTHER -> token.spell

\* The declaration of the new parameter and its default value.
elParameter ==
    (IF elInput.function.parameters > 0 THEN <<", ">> ELSE <<>>)
        \o (IF elInput.typeName = <<>> THEN <<" ">>
            ELSE IF elInput.typeName[Len(elInput.typeName)] = "*" THEN elInput.typeName
            ELSE elInput.typeName \o <<" ">>)
        \o <<"newParameter">>
elDefault == <<" = ">> \o elLiteralSource

\* The texts inserted in front of the closing parenthesis of the
\* definition's and of the declaration's parameter list.
InsertedAt(changes, pos) ==
    {changes[i].text : i \in {j \in 1..Len(changes) :
                                 changes[j].type = "Insert" /\ changes[j].pos1 = pos}}
elDefinitionInserts ==
    InsertedAt(elChanges, startOf(functionDeclarator(elInput).rparen_token))
elDeclarationInserts ==
    InsertedAt(IF elInput.declaration = "otherFile" THEN elDeclChanges ELSE elChanges,
               startOf(FunctionDeclaratorAST(elInput.function, 0).rparen_token))

\* C14 (as stated): the definition and, when there is one, the declaration
\* both receive the new parameter with the literal as default value.
C14_DefaultInBothLists ==
    elPc = "performed" =>
        /\ elDefinitionInserts = {elParameter \o elDefault}
        /\ elInput.declaration # "none" => elDeclarationInserts = {elParameter \o elDefault}

\* C14 (amended): the definition and, when one is found, the declaration
\* both receive the new parameter; the default value goes to the
\* declaration when one is found and to the definition otherwise, so
\* exactly one parameter list carries it.
C14_DefaultInOneList ==
    elPc = "performed" =>
        IF elInput.declaration = "none"
        THEN /\ elDefinitionInserts = {elParameter \o elDefault}
             /\ elDeclChanges = <<>>
        ELSE /\ elDefinitionInserts = {elParameter}
             /\ elDeclarationInserts = {elParameter \o elDefault}

\* void f(int a) { "7"; 7; } declared in another file, the cursor on "7".
C14_Witness ==
    /\ elPc = "performed"
    /\ elInput.declaration = "otherFile"
    /\ elInput.function.parameters > 0
    /\ elInput.tokenKind = "T_STRING_LITERAL"
    /\ Len(elInput.body) > 1
    /\ elDefinitionInserts # {}
    /\ elDeclarationInserts # {}

(***************************************************************************)
(* Claims about SplitSimpleDeclarationOp::perform.                         *)
(***************************************************************************)
\* The text of the file between two positions.
sdTextOf(start, end) == SubSeq(sdInput.file.text, start + 1, end)

sdSpecifierText ==
    LET specifiers == sdInput.declaration.decl_specifier_list IN
    sdTextOf(startOfAST(sdInput.file, specifiers[1]),
             endOfAST(sdInput.file, specifiers[Len(specifiers)]))

sdDeclaratorText(i) ==
    LET declarator == sdInput.declaration.declarator_list[i] IN
    sdTextOf(startOfAST(sdInput.file, declarator), endOfAST(sdInput.file, declarator))

\* The declarations from the i-th declarator on, one per line.
RECURSIVE sdDeclarations(_)
sdDeclarations(i) ==
    IF i > Len(sdInput.declaration.declarator_list) THEN <<>>
    ELSE (IF i = 1 THEN <<>> ELSE <<"\n">>)
             \o sdSpecifierText \o <<" ">> \o sdDeclaratorText(i) \o <<";">>
             \o sdDeclarations(i + 1)

\* C15: splitting a declaration with n >= 2 declarators leaves n
\* declarations in the declarators' order, each the whole specifier text,
\* one declarator and a semicolon, one per line; the text before and after
\* the declaration is unchanged.
C15_SplitYieldsOneDeclarationPerDeclarator ==
    sdPc = "performed" =>
        sdText = sdTextOf(0, startOfAST(sdInput.file, sdInput.declaration))
                     \o sdDeclarations(1)
                     \o sdTextOf(endOfAST(sdInput.file, sdInput.declaration),
                                 Len(sdInput.file.text))

\* c T a, *b, d=1; was split.
C15_Witness ==
    /\ sdPc = "performed"
    /\ Len(sdInput.declaration.declarator_list) = MaxDeclarators
    /\ Len(sdInput.declaration.decl_specifier_list) = 2
    /\ sdDeclaratorText(2) = <<"*", "b">>
    /\ sdDeclaratorText(MaxDeclarators) # <<"*", "b">>
    /\ sdText # sdInput.file.text

(***************************************************************************)
(* Matching with unmet preconditions: SplitSimpleDeclaration,              *)
(* ExtractLiteralAsParameter, ExtractFunction and the rules of the         *)
(* registry, each matched against its inputs.                              *)
(***************************************************************************)
PreconditionsInit ==
    SplitDeclarationInit \/ ExtractLiteralInit \/ ExtractInit \/ DispatchInit

PreconditionsNext ==
    SplitDeclarationMatch \/ ExtractLiteralMatch \/ ExtractMatch \/ DispatchMatch

SpecPreconditions == PreconditionsInit /\ [][PreconditionsNext]_vars

\* The structural preconditions of the three rules that are unmet.
sdUnmet ==
    LET declaration == sdInput.declaration IN
    \/ declaration.semicolon_token = 0
    \/ declaration.decl_specifier_list = <<>>
    \/ \E i \in 1..Len(declaration.decl_specifier_list) :
           declaration.decl_specifier_list[i].kind \in {"EnumSpecifier", "ClassSpecifier"}
    \/ Len(declaration.declarator_list) < 2
    \/ sdInput.path = <<>>

elUnmet ==
    \/ elInput.function # NoInput /\ elInput.function.dot_dot_dot_token
    \/ \E i \in 1..Len(elInput.path) : elInput.path[i].kind = "LambdaExpression"
    \/ elInput.path = <<>>

efUnmet ==
    \/ efInput.selStart = efInput.selEnd
    \/ efInput.enclosingScope = "Template"
    \/ efInput.path = <<>>

UnmetYieldsNothing ==
    /\ (sdPc = "matched" /\ sdUnmet) => sdResult = <<>>
    /\ (elPc = "matched" /\ elUnmet) => elResult = <<>>
    /\ (efPc = "matched" /\ efUnmet) => efResult = <<>>

MaxEdits == 2

\* The buffer and the texts an insert and a replace put in.
BufferText == <<"a", "b", "c">>
InsertedText == <<"x">>
ReplacingText == <<"y", "z">>

Positions == 0..Len(BufferText)
Ranges == {r \in Positions \X Positions : r[1] < r[2]}

\* A move or copy names a target outside of its own range.
Targets(r) == {to \in Positions : to <= r[1] \/ to >= r[2]}

ChangeSetInit ==
    /\ csText = BufferText
    /\ csChanges = <<>>
    /\ csPc = "building"
    /\ csBefore = <<>>
    /\ csOk = FALSE
    /\ csOthersIdle

ChangeSetAdd(op) ==
    /\ csPc = "building"
    /\ Len(csChanges) < MaxEdits
    /\ csChanges' = Append(csChanges, op)
    /\ UNCHANGED <<csText, csPc, csBefore, csOk, csOthers>>

ChangeSetInsert == \E pos \in Positions : ChangeSetAdd(Insert(pos, InsertedText))
ChangeSetRemove == \E r \in Ranges : ChangeSetAdd(Remove(r[1], r[2]))
ChangeSetReplace == \E r \in Ranges : ChangeSetAdd(Replace(r[1], r[2], ReplacingText))
ChangeSetMove == \E r \in Ranges : \E to \in Targets(r) : ChangeSetAdd(Move(r[1], r[2], to))
ChangeSetCopy == \E r \in Ranges : \E to \in Targets(r) : ChangeSetAdd(Copy(r[1], r[2], to))
ChangeSetFlip ==
    \E r1 \in Ranges : \E r2 \in Ranges :
        r1[1] <= r2[1] /\ ChangeSetAdd(Flip(r1[1], r1[2], r2[1], r2[2]))

ChangeSetApply ==
    /\ csPc = "building"
    /\ csChanges # <<>>
    /\ LET done == apply(csText, csChanges) IN
         /\ csText' = done.text
         /\ csOk' = done.ok
    /\ csBefore' = csText
    /\ csPc' = "applied"
    /\ UNCHANGED <<csChanges, csOthers>>

ChangeSetNext ==
    \/ ChangeSetInsert \/ ChangeSetRemove \/ ChangeSetReplace
    \/ ChangeSetMove \/ ChangeSetCopy \/ ChangeSetFlip
    \/ ChangeSetApply

SpecChangeSet == ChangeSetInit /\ [][ChangeSetNext]_vars

\* The range a primitive takes text out of or rewrites, the place it puts
\* text at and the two ranges of a flip.
csRewritten(op) ==
    CASE op.type \in {"Remove", "Replace", "Move"} -> {<<op.pos1, op.pos1 + op.length1>>}
      [] op.type = "Flip" -> {<<op.pos1, op.pos1 + op.length1>>,
                              <<op.pos2, op.pos2 + op.length2>>}
      [] OTHER -> {}
csPlaces(op) ==
    CASE op.type = "Insert" -> {op.pos1}
      [] op.type \in {"Move", "Copy"} -> {op.pos2}
      [] OTHER -> {}
csIntersect(a, b) == a[1] < b[2] /\ b[1] < a[2]

\* Two primitives of the set collide: ranges they rewrite share a
\* character, or one puts text strictly inside a range the other rewrites;
\* a copy out of a rewritten range and text put at the edge of a range
\* are compositions.
csCollision ==
    \/ \E i, j \in 1..Len(csChanges) :
          /\ i # j
          /\ \/ \E a \in csRewritten(csChanges[i]), b \in csRewritten(csChanges[j]) :
                    csIntersect(a, b)
             \/ \E p \in csPlaces(csChanges[i]), b \in csRewritten(csChanges[j]) :
                    b[1] < p /\ p < b[2]
    \/ \E i \in 1..Len(csChanges) :
          /\ csChanges[i].type = "Flip"
          /\ csIntersect(<<csChanges[i].pos1, csChanges[i].pos1 + csChanges[i].length1>>,
                         <<csChanges[i].pos2, csChanges[i].pos2 + csChanges[i].length2>>)

\* How often x occurs in a text, and by how much a primitive, carried out
\* once, changes that number.
RECURSIVE Occurrences(_, _)
Occurrences(text, x) ==
    IF text = <<>> THEN 0
    ELSE (IF Head(text) = x THEN 1 ELSE 0) + Occurrences(Tail(text), x)

csDelta(op, x) ==
    LET taken == Occurrences(SubSeq(csBefore, op.pos1 + 1, op.pos1 + op.length1), x)
    IN CASE op.type = "Insert" -> Occurrences(op.text, x)
         [] op.type = "Remove" -> 0 - taken
         [] op.type = "Replace" -> Occurrences(op.text, x) - taken
         [] op.type = "Copy" -> taken
         [] OTHER -> 0

RECURSIVE csDeltas(_, _)
csDeltas(i, x) ==
    IF i > Len(csChanges) THEN 0 ELSE csDelta(csChanges[i], x) + csDeltas(i + 1, x)

csLetters == {"a", "b", "c", "d", "e", "x", "y", "z"}

\* C17: apply is all or nothing: a set with a collision is rejected and
\* the buffer keeps its text; any other set is applied with every
\* primitive carried out exactly once.
C17_ApplyAllOrNothing ==
    csPc = "applied" =>
        IF csCollision
        THEN ~csOk /\ csText = csBefore
        ELSE /\ csOk
             /\ \A x \in csLetters :
                    Occurrences(csText, x) = Occurrences(csBefore, x) + csDeltas(1, x)

\* A set of two primitives whose ranges intersect was applied and rejected.
C17_Witness ==
    /\ csPc = "applied"
    /\ Len(csChanges) = MaxEdits
    /\ csChanges[1].type = "Remove"
    /\ csChanges[2].type = "Replace"
    /\ csCollision
    /\ ~csOk
    /\ csText = csBefore

(***************************************************************************)
(* RearrangeParamDeclarationList and the post-increment part of            *)
(* OptimizeForLoop: the two operations whose ChangeSet holds a flip.       *)
(* The files are                                                           *)
(*     f(T, T a, T *a);          and          for (;; a[0]++) ;            *)
(***************************************************************************)
MaxParameters == 3

\* A parameter declaration is a type, a type and a name or a pointer.
ParameterShapes == {"type", "named", "pointer"}
ParameterText(shape) ==
    CASE shape = "named" -> <<"T", " ", "a">>
      [] shape = "pointer" -> <<"T", " ", "*", "a">>
      [] OTHER -> <<"T">>
ParameterTokenCount(shape) ==
    CASE shape = "named" -> 2 [] shape = "pointer" -> 3 [] OTHER -> 1

RECURSIVE JoinParameters(_, _)
JoinParameters(shapes, i) ==
    IF i > Len(shapes) THEN <<>>
    ELSE (IF i = 1 THEN <<>> ELSE <<",", " ">>) \o ParameterText(shapes[i])
             \o JoinParameters(shapes, i + 1)

ParameterListText(shapes) == <<"f", "(">> \o JoinParameters(shapes, 1) \o <<")", ";">>

RECURSIVE ParameterFirstToken(_, _)
ParameterFirstToken(shapes, i) ==
    IF i = 1 THEN 3
    ELSE ParameterFirstToken(shapes, i - 1) + ParameterTokenCount(shapes[i - 1]) + 1

ParameterDeclarationAST(shapes, i) ==
    [kind |-> "ParameterDeclaration",
     firstToken |-> ParameterFirstToken(shapes, i),
     lastToken |-> ParameterFirstToken(shapes, i) + ParameterTokenCount(shapes[i])]

ParameterDeclarationClauseAST(shapes) ==
    [kind |-> "ParameterDeclarationClause",
     parameter_declaration_list |-> [i \in 1..Len(shapes) |-> ParameterDeclarationAST(shapes, i)],
     firstToken |-> 3,
     lastToken |-> IF shapes = <<>> THEN 3
                   ELSE ParameterDeclarationAST(shapes, Len(shapes)).lastToken]

\* interface.path() of a cursor in the declaration of f.
ParameterPath(file, clause, cursor) ==
    LET outer == <<[kind |-> "TranslationUnit"], [kind |-> "SimpleDeclaration"],
                   [kind |-> "Declarator"], [kind |-> "FunctionDeclarator"]>>
        list == clause.parameter_declaration_list
        under == {i \in 1..Len(list) : HoldsCursor(file, list[i], cursor)}
    IN IF ~HoldsCursor(file, clause, cursor) THEN outer
       ELSE IF under = {} THEN Append(outer, clause)
       ELSE outer \o <<clause, list[CHOOSE i \in under : \A j \in under : i <= j],
                       [kind |-> "NamedTypeSpecifier"]>>

\* The for statement, its expression a post-increment, a pre-increment or absent.
ForExpressions ==
    {[kind |-> "PostIncrDecr", base |-> b, token |-> t] :
         b \in {<<"i">>, <<"a", "[", "0", "]">>}, t \in {"++", "--"}}
        \cup {[kind |-> "UnaryExpression", base |-> <<"i">>, token |-> "++"],
              [kind |-> "null", base |-> <<>>, token |-> ""]}

ForText(e) ==
    <<"for", " ", "(", ";", ";", " ">>
        \o (CASE e.kind = "PostIncrDecr" -> e.base \o <<e.token>>
              [] e.kind = "UnaryExpression" -> <<e.token>> \o e.base
              [] OTHER -> <<>>)
        \o <<")", " ", ";">>

ForLoopAST(e) ==
    LET first == 5
        n == Len(e.base)
    IN [kind |-> "ForStatement", firstToken |-> 1,
        lastToken |-> IF e.kind = "null" THEN 7 ELSE 8 + n,
        initializer |-> [kind |-> "ExpressionStatement", firstToken |-> 3, lastToken |-> 4],
        condition |-> [kind |-> "null"],
        expression |->
            CASE e.kind = "PostIncrDecr" ->
                    [kind |-> "PostIncrDecr", firstToken |-> first, lastToken |-> first + n + 1,
                     base_expression |-> [kind |-> "IdExpression", firstToken |-> first,
                                          lastToken |-> first + n],
                     incr_decr_token |-> first + n]
              [] e.kind = "UnaryExpression" ->
                    [kind |-> "UnaryExpression", firstToken |-> first,
                     lastToken |-> first + n + 1]
              [] OTHER -> [kind |-> "null"]]

\* interface.path() of a cursor in the file of the for statement.
ForPath(file, forAst, cursor) ==
    LET outer == <<[kind |-> "TranslationUnit"], [kind |-> "FunctionDefinition"],
                   [kind |-> "CompoundStatement"]>>
    IN IF ~HoldsCursor(file, forAst, cursor) THEN outer
       ELSE IF HoldsCursor(file, forAst.initializer, cursor)
       THEN outer \o <<forAst, forAst.initializer>>
       ELSE IF forAst.expression.kind # "null" /\ HoldsCursor(file, forAst.expression, cursor)
       THEN outer \o <<forAst, forAst.expression>>
       ELSE Append(outer, forAst)

RearrangeParamDeclarationListOp(currentParam, targetParam, target) ==
    [rule |-> "RearrangeParamDeclarationList", priority |-> -1,
     m_currentParam |-> currentParam, m_targetParam |-> targetParam,
     description |-> IF target = "TargetPrevious" THEN "Switch with Previous Parameter"
                     ELSE "Switch with Next Parameter"]

\* The loop of doMatch that looks for the parameter declaration: its index
\* in the path, -1 when there is none.
RECURSIVE RearrangeScan(_, _)
RearrangeScan(path, index) ==
    IF index = -1 THEN -1
    ELSE IF path[index + 1].kind = "ParameterDeclaration" THEN index
    ELSE RearrangeScan(path, index - 1)

RearrangeParamDeclarationList_doMatch(input) ==
    LET path == input.path
        index == RearrangeScan(path, Len(path) - 1)
    IN IF index < 1 THEN <<>>
       ELSE LET paramDecl == path[index + 1]
                paramDeclClause == path[index]
            IN IF paramDeclClause.kind # "ParameterDeclarationClause" THEN <<>>
               ELSE IF paramDeclClause.parameter_declaration_list = <<>> THEN <<>>
               ELSE LET list == paramDeclClause.parameter_declaration_list
                        found == {i \in 1..Len(list) : list[i] = paramDecl}
                    IN IF found = {} THEN <<>>
                       ELSE LET k == CHOOSE i \in found : \A j \in found : i <= j
                            IN (IF k > 1
                                THEN <<RearrangeParamDeclarationListOp(
                                           list[k], list[k - 1], "TargetPrevious")>>
                                ELSE <<>>)
                               \o (IF k < Len(list)
                                   THEN <<RearrangeParamDeclarationListOp(
                                              list[k], list[k + 1], "TargetNext")>>
                                   ELSE <<>>)

\* perform() flipping the current parameter with the first token of the target.
RearrangeParamDeclarationListOp_performFirstToken(file, op) ==
    <<Flip(startOfAST(file, op.m_currentParam), endOfAST(file, op.m_currentParam),
           startOfAST(file, op.m_targetParam),
           endOfToken(file, op.m_targetParam.firstToken))>>

RearrangeParamDeclarationListOp_perform(file, op) ==
    LET targetEndPos == endOfAST(file, op.m_targetParam)
    IN <<Flip(startOfAST(file, op.m_currentParam), endOfAST(file, op.m_currentParam),
              startOfAST(file, op.m_targetParam), targetEndPos)>>

OptimizeForLoopOperation(forAst, optimizePostcrement, expression) ==
    [rule |-> "OptimizeForLoop", priority |-> -1, m_forAst |-> forAst,
     m_optimizePostcrement |-> optimizePostcrement, m_expression |-> expression,
     description |-> "Optimize for-Loop"]

\* OptimizeForLoop::doMatch for a for statement without condition.
OptimizeForLoop_doMatch(input) ==
    LET path == input.path
        forAst == IF path # <<>> /\ path[Len(path)].kind = "ForStatement"
                  THEN path[Len(path)] ELSE [kind |-> "null"]
    IN IF forAst.kind = "null" \/ ~HoldsCursor(input.file, forAst, input.cursor) THEN <<>>
       ELSE LET optimizePostcrement ==
                    /\ forAst.expression.kind = "PostIncrDecr"
                    /\ input.file.text[startOfToken(input.file,
                                           forAst.expression.incr_decr_token) + 1]
                           \in {"++", "--"}
                optimizeCondition == FALSE
            IN IF optimizePostcrement \/ optimizeCondition
               THEN <<OptimizeForLoopOperation(forAst, optimizePostcrement, [kind |-> "null"])>>
               ELSE <<>>

OptimizeForLoopOperation_perform(file, op) ==
    IF op.m_optimizePostcrement /\ op.m_forAst.expression.kind = "PostIncrDecr"
    THEN LET incrdecr == op.m_forAst.expression
         IN <<Flip(startOfAST(file, incrdecr.base_expression),
                   endOfAST(file, incrdecr.base_expression),
                   startOfToken(file, incrdecr.incr_decr_token),
                   endOfToken(file, incrdecr.incr_decr_token))>>
    ELSE <<>>

FlipRule_doMatch(input) ==
    IF input.rule = "OptimizeForLoop" THEN OptimizeForLoop_doMatch(input)
    ELSE RearrangeParamDeclarationList_doMatch(input)

FlipRule_perform(file, op) ==
    IF op.rule = "OptimizeForLoop" THEN OptimizeForLoopOperation_perform(file, op)
    ELSE RearrangeParamDeclarationListOp_perform(file, op)

ParameterShapeLists == UNION {[1..n -> ParameterShapes] : n \in 0..MaxParameters}

FlipInit ==
    /\ \/ \E shapes \in ParameterShapeLists :
            LET file == File(ParameterListText(shapes))
                clause == ParameterDeclarationClauseAST(shapes)
            IN \E cursor \in 0..Len(file.text) :
                 rpInput = [rule |-> "RearrangeParamDeclarationList", file |-> file,
                            cursor |-> cursor,
                            path |-> ParameterPath(file, clause, cursor)]
       \/ \E e \in ForExpressions :
            LET file == File(ForText(e))
                forAst == ForLoopAST(e)
            IN \E cursor \in 0..Len(file.text) :
                 rpInput = [rule |-> "OptimizeForLoop", file |-> file, cursor |-> cursor,
                            path |-> ForPath(file, forAst, cursor)]
    /\ rpPc = "input"
    /\ rpResult = <<>>
    /\ rpChanges = <<>>
    /\ rpText = <<>>
    /\ rpOthersIdle

FlipMatch ==
    /\ rpPc = "input"
    /\ rpResult' = FlipRule_doMatch(rpInput)
    /\ rpPc' = "matched"
    /\ UNCHANGED <<rpInput, rpChanges, rpText, rpOthers>>

\* The user picks one of the operations: perform() builds the ChangeSet and
\* currentFile->apply() rewrites the file.
FlipPerform ==
    /\ rpPc = "matched"
    /\ \E i \in 1..Len(rpResult) :
          LET changes == FlipRule_perform(rpInput.file, rpResult[i])
          IN /\ rpChanges' = changes
             /\ rpText' = apply(rpInput.file.text, changes).text
    /\ rpPc' = "performed"
    /\ UNCHANGED <<rpInput, rpResult, rpOthers>>

FlipNext == FlipMatch \/ FlipPerform

SpecFlip == FlipInit /\ [][FlipNext]_vars

(***************************************************************************)
(* Claims about flip.                                                      *)
(***************************************************************************)
\* The two ranges an operation is to swap, the one that comes first first.
rpRanges(op) ==
    LET file == rpInput.file
        r1 == IF op.rule = "OptimizeForLoop"
              THEN <<startOfAST(file, op.m_forAst.expression.base_expression),
                     endOfAST(file, op.m_forAst.expression.base_expression)>>
              ELSE <<startOfAST(file, op.m_currentParam), endOfAST(file, op.m_currentParam)>>
        r2 == IF op.rule = "OptimizeForLoop"
              THEN <<startOfToken(file, op.m_forAst.expression.incr_decr_token),
                     endOfToken(file, op.m_forAst.expression.incr_decr_token)>>
              ELSE <<startOfAST(file, op.m_targetParam), endOfAST(file, op.m_targetParam)>>
    IN IF r1[1] < r2[1] THEN <<r1, r2>> ELSE <<r2, r1>>

\* prefix + text(B) + text between A and B + text(A) + suffix.
rpSwapped(A, B) ==
    LET text == rpInput.file.text IN
    SubSeq(text, 1, A[1]) \o SubSeq(text, B[1] + 1, B[2])
        \o SubSeq(text, A[2] + 1, B[1])
        \o SubSeq(text, A[1] + 1, A[2]) \o SubSeq(text, B[2] + 1, Len(text))

\* C19: a ChangeSet holding the flip of two disjoint ranges A before B, of
\* any lengths, turns the text into prefix + text(B) + the text between
\* them + text(A) + suffix.
C19_FlipSwapsTheTwoRanges ==
    rpPc = "performed" =>
        /\ Len(rpChanges) = 1 /\ rpChanges[1].type = "Flip"
        /\ \E i \in 1..Len(rpResult) :
              LET r == rpRanges(rpResult[i]) IN
              /\ r[1][2] <= r[2][1]
              /\ rpChanges[1] \in {Flip(r[1][1], r[1][2], r[2][1], r[2][2]),
                                   Flip(r[2][1], r[2][2], r[1][1], r[1][2])}
              /\ rpText = rpSwapped(r[1], r[2])

\* f(T, T *a, ...) with the cursor on T *a: switched with the previous parameter.
C19_Witness ==
    /\ rpPc = "performed"
    /\ rpInput.rule = "RearrangeParamDeclarationList"
    /\ Len(rpResult) = 2
    /\ rpChanges[1].length1 > rpChanges[1].length2
    /\ rpChanges[1].pos1 > rpChanges[1].pos2 + rpChanges[1].length2
    /\ rpText # rpInput.file.text

\* for (;; a[0]++) became for (;; ++a[0]).
C19_WitnessAdjacent ==
    /\ rpPc = "performed"
    /\ rpInput.rule = "OptimizeForLoop"
    /\ rpChanges[1].length1 > rpChanges[1].length2
    /\ rpChanges[1].pos2 = rpChanges[1].pos1 + rpChanges[1].length1
    /\ rpText = <<"for", " ", "(", ";", ";", " ", "++", "a", "[", "0", "]", ")", " ", ";">>

(***************************************************************************)
(* Claims about the order in which the caller presents the operations.     *)
(***************************************************************************)
\* What the registered rules return for the context, rule after rule in
\* the order of registration.
RECURSIVE dpReturnedFrom(_)
dpReturnedFrom(i) ==
    IF i > Len(cppQuickFixFactories) THEN <<>>
    ELSE doMatch(cppQuickFixFactories[i], dpContext) \o dpReturnedFrom(i + 1)

\* f lists the indices of `returned` by priority, highest first, operations
\* of equal priority in the order they were returned in.
dpOrders(f, returned) ==
    \A k, l \in 1..Len(returned) :
        k < l => \/ returned[f[k]].priority > returned[f[l]].priority
                 \/ /\ returned[f[k]].priority = returned[f[l]].priority
                    /\ f[k] < f[l]

\* C20: the operations presented are all operations the registered rules
\* return, by priority descending; operations of equal priority keep the
\* registration order of their rules and, within a rule, the order in which
\* the rule appended them.
C20_PresentedByPriorityStable ==
    dpPc = "presented" =>
        LET returned == dpReturnedFrom(1)
            n == Len(returned)
        IN /\ dpResult = returned
           /\ Len(dpPresented) = n
           /\ \E f \in [1..n -> 1..n] :
                 /\ \A k, l \in 1..n : k # l => f[k] # f[l]
                 /\ dpOrders(f, returned)
                 /\ \A k \in 1..n : dpPresented[k] = returned[f[k]]

\* A numeric literal in a function with a visible link marker: the
\* operation of priority 100, returned second to last, is presented first
\* and the operations of two rules with equal priority keep their order.
C20_Witness ==
    /\ dpPc = "presented"
    /\ Len(dpResult) >= 3
    /\ dpPresented # dpResult
    /\ dpPresented[1].rule = "ApplyDeclDefLinkChanges"
    /\ dpPresented[2].rule = "ConvertNumericLiteral"
    /\ dpPresented[Len(dpPresented)].rule = "ExtractLiteralAsParameter"
    /\ dpPresented[2].priority = dpPresented[Len(dpPresented)].priority

(***************************************************************************)
(* ConvertCommentStyle.  The document is a list of lines (text blocks), a  *)
(* line being the list of its characters; a position counts characters     *)
(* from 0, every line taking one more than its characters for the block    *)
(* separator.  A token is its kind and the positions of its first          *)
(* character and after its last character.                                 *)
(***************************************************************************)
MaxCommentLines == 2

T_COMMENT == "T_COMMENT"
T_DOXY_COMMENT == "T_DOXY_COMMENT"
T_CPP_COMMENT == "T_CPP_COMMENT"
T_CPP_DOXY_COMMENT == "T_CPP_DOXY_COMMENT"
T_IDENTIFIER == "T_IDENTIFIER"

\* Token::isComment
isComment(token) ==
    token.kind \in {T_COMMENT, T_DOXY_COMMENT, T_CPP_COMMENT, T_CPP_DOXY_COMMENT}

\* QTextBlock::position and QTextBlock::length of line b (from 1).
RECURSIVE blockPosition(_, _)
blockPosition(lines, b) ==
    IF b = 1 THEN 0 ELSE blockPosition(lines, b - 1) + Len(lines[b - 1]) + 1

blockLength(lines, b) == Len(lines[b]) + 1

\* QTextDocument::findBlock
findBlock(lines, pos) ==
    CHOOSE b \in 1..Len(lines) :
        /\ blockPosition(lines, b) <= pos
        /\ pos < blockPosition(lines, b) + blockLength(lines, b)

\* The text of the document, the lines joined by the block separator.
RECURSIVE documentText(_)
documentText(lines) ==
    IF Len(lines) = 1 THEN lines[1]
    ELSE lines[1] \o <<"\n">> \o documentText(Tail(lines))

\* QString(n, ch)
RECURSIVE Fill(_, _)
Fill(n, ch) == IF n <= 0 THEN <<>> ELSE <<ch>> \o Fill(n - 1, ch)

\* The lines of C++-style comments, one token each, and a line of code.
CxxCommentLines ==
    {<<"/", "/", " ", "a">>, <<"/", "/", "/", " ", "a">>, <<"/", "/", "!", " ", "a">>,
     <<"/", "/", "/", "/", "/">>, <<" ", "/", "/", "a">>, <<"/", "/">>}

CodeLine == <<"a">>

\* The C-style comments, one token each, line by line.
CComments ==
    {<< <<"/", "*", " ", "a", " ", "*", "/">> >>,
     << <<"/", "*", "*", "*", "*", "/">> >>,
     << <<"/", "*", "*", " ", "a", " ", "*", "/">> >>,
     << <<"/", "*">>, <<" ", "*", " ", "a">>, <<" ", "*", "/">> >>,
     << <<"/", "*", "*", "*", "*">>, <<" ", " ", " ", " ", "a">>, <<"*", "*", "*", "*", "/">> >>,
     << <<"/", "*", " ", "a">>, <<"b", " ", "*", "/">> >>}

\* The column of the first character of a line that is no blank.
RECURSIVE firstNonSpace(_, _)
firstNonSpace(line, i) ==
    IF i >= Len(line) \/ line[i + 1] # " " THEN i ELSE firstNonSpace(line, i + 1)

\* The kind the lexer gives a comment that starts with `start`.
commentKind(start) ==
    LET third == IF Len(start) >= 3 THEN start[3] ELSE ""
        fourth == IF Len(start) >= 4 THEN start[4] ELSE ""
    IN IF start[2] = "/"
       THEN IF third \in {"/", "!"} THEN T_CPP_DOXY_COMMENT ELSE T_CPP_COMMENT
       ELSE IF third \in {"*", "!"} /\ fourth \in {"", " "}
            THEN T_DOXY_COMMENT ELSE T_COMMENT

\* The tokens of a document of C++-style comment lines and code lines.
CxxTokens(lines) ==
    [b \in 1..Len(lines) |->
        LET first == firstNonSpace(lines[b], 0)
        IN [kind |-> IF lines[b] = CodeLine THEN T_IDENTIFIER
                     ELSE commentKind(SubSeq(lines[b], first + 1, Len(lines[b]))),
            start |-> blockPosition(lines, b) + first,
            end |-> blockPosition(lines, b) + Len(lines[b])]]

\* The token of a document that is one C-style comment.
CTokens(lines) ==
    <<[kind |-> commentKind(lines[1]), start |-> 0,
       end |-> blockPosition(lines, Len(lines)) + Len(lines[Len(lines)])]>>

(***************************************************************************)
(* ConvertCommentStyle::doMatch                                            *)
(***************************************************************************)
ConvertCommentStyleOp(tokens, kind) ==
    [rule |-> "ConvertCommentStyle", priority |-> -1,
     description |-> IF kind \in {T_CPP_COMMENT, T_CPP_DOXY_COMMENT}
                     THEN "Convert Comment to C-Style"
                     ELSE "Convert Comment to C++-Style",
     m_tokens |-> tokens, m_kind |-> kind,
     m_wasCxxStyle |-> kind \in {T_CPP_COMMENT, T_CPP_DOXY_COMMENT},
     m_isDoxygen |-> kind \in {T_DOXY_COMMENT, T_CPP_DOXY_COMMENT}]

\* Doxygen comments that start with "///" count as normal comments.
effectiveKind(text, token) ==
    IF token.kind # T_CPP_DOXY_COMMENT THEN token.kind
    ELSE IF textAt(text, token.start, 3) = <<"/", "/", "/">>
         THEN T_CPP_COMMENT ELSE T_CPP_DOXY_COMMENT

ConvertCommentStyle_doMatch(input) ==
    LET cursorTokens == input.cursorTokens
        text == documentText(input.lines)
    IN IF cursorTokens = <<>> THEN <<>>
       ELSE IF ~isComment(cursorTokens[1]) THEN <<>>
       ELSE LET kind == effectiveKind(text, cursorTokens[1])
            IN IF \E i \in 2..Len(cursorTokens) : effectiveKind(text, cursorTokens[i]) # kind
               THEN <<>>
               ELSE <<ConvertCommentStyleOp(cursorTokens, kind)>>

(***************************************************************************)
(* ConvertCommentStyleOp::perform                                          *)
(***************************************************************************)
getNewCommentStart(op) ==
    IF op.m_wasCxxStyle
    THEN IF op.m_isDoxygen THEN <<"/", "*", "!">> ELSE <<"/", "*">>
    ELSE IF op.m_isDoxygen THEN <<"/", "/", "!">> ELSE <<"/", "/">>

\* The loop of indexOfActualContent from column i on.
RECURSIVE indexOfActualContentFrom(_, _, _, _)
indexOfActualContentFrom(blockText, i, lastFillChar, oldFillChar) ==
    IF i >= Len(blockText) THEN -1
    ELSE IF blockText[i + 1] = oldFillChar
         THEN indexOfActualContentFrom(blockText, i + 1, i, oldFillChar)
    ELSE IF blockText[i + 1] # " " THEN lastFillChar + 1
    ELSE indexOfActualContentFrom(blockText, i + 1, lastFillChar, oldFillChar)

\* QString::chop
chop(str, n) == IF n >= Len(str) THEN <<>> ELSE SubSeq(str, 1, Len(str) - n)

\* The body of the loop over the blocks of one token: the primitives it
\* adds to the ChangeSet and the new endCommentColumn.
ConvertBlock(lines, op, token, block, changeSet, endCommentColumn) ==
    LET newCommentStart == getNewCommentStart(op)
        oldFillChar == IF op.m_wasCxxStyle THEN "/" ELSE "*"
        newFillChar == IF op.m_wasCxxStyle THEN "*" ELSE "/"
        startPos == token.start
        endPos == token.end
        firstBlock == findBlock(lines, startPos)
        lastBlock == findBlock(lines, endPos)
        blockText == lines[block]
        position == blockPosition(lines, block)
        firstColumn == IF block = firstBlock THEN startPos - position ELSE 0
        endColumn == IF block = lastBlock THEN endPos - position
                     ELSE blockLength(lines, block)
        textToCheck ==
            chop(IF block = firstBlock /\ blockText # <<>> THEN Tail(blockText) ELSE blockText,
                 IF block = lastBlock THEN blockLength(lines, block) - endColumn ELSE 0)
        fillChecker ==
            /\ ~op.m_isDoxygen
            /\ \A i \in 1..Len(textToCheck) : textToCheck[i] \in {oldFillChar, " "}
            /\ Cardinality({i \in 1..Len(textToCheck) : textToCheck[i] = oldFillChar}) > 2
        contentIndex ==
            indexOfActualContentFrom(blockText,
                                     IF block = firstBlock
                                     THEN firstColumn + Len(newCommentStart)
                                     ELSE firstColumn,
                                     -1, oldFillChar)
        blockIsRemovable == (block = firstBlock \/ block = lastBlock) /\ firstBlock # lastBlock
        removeBlock == <<Remove(position + firstColumn, position + endColumn)>>
        removed == IF contentIndex # -1 /\ ~(block = lastBlock /\ contentIndex = endColumn - 1)
                   THEN contentIndex ELSE 0
        leadingNoise ==
            IF contentIndex # -1 /\ ~(block = lastBlock /\ contentIndex = endColumn - 1)
            THEN <<Remove(position + firstColumn, position + firstColumn + contentIndex)>>
            ELSE <<>>
        enoughWhitespace ==
            LET n == Len(newCommentStart) + removed + 1
            IN Len(blockText) >= n /\ \A i \in 1..n : blockText[i] = " "
        commentStart ==
            IF block = firstBlock
            THEN <<Replace(startPos, startPos + Len(newCommentStart), newCommentStart)>>
            ELSE IF enoughWhitespace
                 THEN <<Replace(position, position + Len(newCommentStart), newCommentStart)>>
                 ELSE <<Insert(position, newCommentStart)>>
        commentEnd ==
            IF block # lastBlock THEN <<>>
            ELSE IF op.m_wasCxxStyle
                 THEN (IF endCommentColumn # -1 /\ endPos < position + endCommentColumn
                       THEN <<Insert(endPos,
                                     Fill(position + endCommentColumn - endPos - 1, " "))>>
                       ELSE <<>>)
                      \o <<Insert(endPos, <<" ", "*", "/">>)>>
                 ELSE <<Remove(endPos - 2, endPos)>>
    IN IF fillChecker
       THEN [changeSet |-> changeSet
                 \o <<Replace(position + firstColumn, position + endColumn - 1,
                              Fill(endColumn - 1 - firstColumn, newFillChar))>>
                 \o (IF op.m_wasCxxStyle
                     THEN <<Replace(position + firstColumn, position + firstColumn + 1, <<"/">>),
                            Insert(position + endColumn - 1, <<"*">>)>>
                     ELSE <<>>),
             endCommentColumn |-> IF op.m_wasCxxStyle THEN endColumn - 1 ELSE endCommentColumn]
       ELSE IF contentIndex = -1 /\ blockIsRemovable
       THEN [changeSet |-> changeSet \o removeBlock, endCommentColumn |-> endCommentColumn]
       ELSE IF contentIndex = -1 /\ ~op.m_wasCxxStyle
       THEN [changeSet |-> changeSet
                 \o <<Replace(position + firstColumn, position + endColumn - 1,
                              newCommentStart)>>,
             endCommentColumn |-> endCommentColumn]
       ELSE IF contentIndex # -1 /\ block = lastBlock /\ contentIndex = endColumn - 1
               /\ blockIsRemovable
       THEN [changeSet |-> changeSet \o removeBlock, endCommentColumn |-> endCommentColumn]
       ELSE [changeSet |-> changeSet \o leadingNoise \o commentStart \o commentEnd,
             endCommentColumn |-> endCommentColumn]

\* The loop over the blocks of one token, from `block` on.
RECURSIVE ConvertBlocks(_, _, _, _, _, _)
ConvertBlocks(lines, op, token, block, changeSet, endCommentColumn) ==
    IF block > Len(lines) \/ blockPosition(lines, block) > token.end
    THEN [changeSet |-> changeSet, endCommentColumn |-> endCommentColumn]
    ELSE LET next == ConvertBlock(lines, op, token, block, changeSet, endCommentColumn)
         IN ConvertBlocks(lines, op, token, block + 1, next.changeSet,
                          next.endCommentColumn)

\* The loop over the tokens, from token i on.
RECURSIVE ConvertTokens(_, _, _, _, _)
ConvertTokens(lines, op, i, changeSet, endCommentColumn) ==
    IF i > Len(op.m_tokens) THEN changeSet
    ELSE LET token == op.m_tokens[i] IN
         IF op.m_wasCxxStyle /\ op.m_isDoxygen
         THEN ConvertTokens(lines, op, i + 1,
                            changeSet \o <<Replace(token.start, token.start + 3,
                                                   <<" ", " ", " ">>)>>,
                            endCommentColumn)
         ELSE LET next == ConvertBlocks(lines, op, token, findBlock(lines, token.start),
                                        changeSet, endCommentColumn)
              IN ConvertTokens(lines, op, i + 1, next.changeSet, next.endCommentColumn)

\* The primitives of the ChangeSet that perform builds.
ConvertCommentStyleOp_perform(lines, op) ==
    ConvertTokens(lines, op, 1, <<>>, -1)
        \o (IF op.m_wasCxxStyle /\ op.m_isDoxygen
            THEN <<Insert(op.m_tokens[1].start, <<"/", "*", "!", "\n">>),
                   Insert(op.m_tokens[Len(op.m_tokens)].end, <<"\n", "*", "/">>)>>
            ELSE <<>>)

\* The documents: up to MaxCommentLines lines of C++-style comments and
\* code, or one C-style comment; the cursor tokens are none or some
\* consecutive tokens of the document.
ConvertCommentInit ==
    /\ \E lines \in UNION {[1..n -> CxxCommentLines \cup {CodeLine}] : n \in 1..MaxCommentLines}
                        \cup CComments :
         LET tokens == IF lines \in CComments THEN CTokens(lines) ELSE CxxTokens(lines)
         IN \E i \in 1..Len(tokens), j \in 0..Len(tokens) :
               ccInput = [lines |-> lines, tokens |-> tokens,
                          cursorTokens |-> SubSeq(tokens, i, j)]
    /\ ccPc = "input"
    /\ ccResult = <<>>
    /\ ccChanges = <<>>
    /\ ccText = <<>>
    /\ ccOthersIdle

ConvertCommentMatch ==
    /\ ccPc = "input"
    /\ ccResult' = ConvertCommentStyle_doMatch(ccInput)
    /\ ccPc' = "matched"
    /\ UNCHANGED <<ccInput, ccChanges, ccText, ccOthers>>

\* perform builds the ChangeSet and applies it to the document.
ConvertCommentPerform ==
    /\ ccPc = "matched"
    /\ \E i \in 1..Len(ccResult) :
          LET changeSet == ConvertCommentStyleOp_perform(ccInput.lines, ccResult[i])
          IN /\ ccChanges' = changeSet
             /\ ccText' = apply(documentText(ccInput.lines), changeSet).text
    /\ ccPc' = "performed"
    /\ UNCHANGED <<ccInput, ccResult, ccOthers>>

ConvertCommentNext == ConvertCommentMatch \/ ConvertCommentPerform

SpecConvertComment == ConvertCommentInit /\ [][ConvertCommentNext]_vars

(***************************************************************************)
(* SplitIfStatementOp::perform                                             *)
(***************************************************************************)
\* splitAndCondition: the primitives of its ChangeSet.
splitAndCondition(pattern, condition) ==
    LET startPos == startOf(pattern.first)
        lExprEnd == endOf(condition.left.last)
    IN <<Insert(startPos, <<"i", "f", " ", "(">>),
         Move(startOf(condition.left.first), endOf(condition.left.last), startPos),
         Insert(startPos, <<")", " ", "{", "\n">>),
         Remove(lExprEnd, startOf(condition.right.first)),
         Insert(endOf(pattern.last), <<"\n", "}">>)>>

\* splitOrCondition: the primitives of its ChangeSet; compoundStatement
\* tells whether the statement of the if is a compound statement.
splitOrCondition(pattern, condition, compoundStatement) ==
    LET insertPos == endOf(pattern.statement.last)
        rExprStart == startOf(condition.right.first)
        rParenEnd == endOf(pattern.rparen_token)
        lExprEnd == endOf(condition.left.last)
    IN <<Insert(insertPos, IF compoundStatement THEN <<" ">> ELSE <<"\n">>),
         Insert(insertPos, <<"e", "l", "s", "e", " ", "i", "f", " ", "(">>),
         Move(rExprStart, startOf(pattern.rparen_token), insertPos),
         Insert(insertPos, <<")">>),
         Copy(rParenEnd, endOf(pattern.statement.last), insertPos),
         Remove(lExprEnd, startOf(condition.right.first))>>

SplitIfStatementOp_perform(op, compoundStatement) ==
    IF op.condition.op = T_AMPER_AMPER
    THEN splitAndCondition(op.pattern, op.condition)
    ELSE splitOrCondition(op.pattern, op.condition, compoundStatement)

SplitIfPerform ==
    /\ siPc = "matched"
    /\ \E i \in 1..Len(siResult), compoundStatement \in BOOLEAN :
          siChanges' = SplitIfStatementOp_perform(siResult[i], compoundStatement)
    /\ siPc' = "performed"
    /\ UNCHANGED <<siInput, siResult, siOthers>>

(***************************************************************************)
(* Every rule whose perform() builds a ChangeSet, on every input it        *)
(* matched.                                                                *)
(***************************************************************************)
ChangeSetsInit ==
    \/ SplitIfInit
    \/ MoveDeclarationInit
    \/ SplitDeclarationInit
    \/ SwitchInit
    \/ ExtractLiteralInit
    \/ FlipInit
    \/ ConvertCommentInit

ChangeSetsNext ==
    \/ SplitIfMatch
    \/ SplitIfPerform
    \/ MoveDeclarationNext
    \/ SplitDeclarationNext
    \/ SwitchNext
    \/ ExtractLiteralNext
    \/ FlipNext
    \/ ConvertCommentNext

SpecChangeSets == ChangeSetsInit /\ [][ChangeSetsNext]_vars

\* The ChangeSets built by the operation performed, if one was.
BuiltChangeSets ==
    {siChanges, mdChanges, sdChanges, swChanges, elChanges, elDeclChanges, rpChanges,
     ccChanges}

\* C18: every ChangeSet that perform() builds satisfies the ChangeSet
\* invariant: the source ranges of its primitives do not overlap pairwise,
\* a move or copy composed with other edits excepted; also for
\* ConvertCommentStyle on fill lines and SplitIfStatement on nested
\* conditions.
C18_BuiltChangeSetsHaveNoOverlap ==
    \A changes \in BuiltChangeSets : ~hasOverlap(changes)

\* C18, what the code does: the ChangeSets of SplitIfStatement, of the
\* MoveDeclaration rules, of SplitSimpleDeclaration, of
\* CompleteSwitchCaseStatement, of ExtractLiteralAsParameter, of the
\* flipping rules and of ConvertCommentStyle on C-style comments have no
\* overlap; ConvertCommentStyle on a C++-style comment that is no doxygen
\* comment replaces the first character of a fill line twice, and removes
\* the slashes before the content and replaces the first two of them.
C18_OnlyCxxCommentsOverlap ==
    /\ \A changes \in BuiltChangeSets \ {ccChanges} : ~hasOverlap(changes)
    /\ ccPc = "performed" /\ hasOverlap(ccChanges) =>
          /\ ccResult[1].m_wasCxxStyle
          /\ ~ccResult[1].m_isDoxygen
          /\ ccText = documentText(ccInput.lines)

\* A fill line of slashes is converted: its first character is the source
\* of two replacements.
C18_WitnessFillLine ==
    /\ ccPc = "performed"
    /\ ccInput.lines = << <<"/", "/", "/", "/", "/">> >>
    /\ \E i, j \in 1..Len(ccChanges) :
          /\ i < j
          /\ ccChanges[i].type = "Replace" /\ ccChanges[j].type = "Replace"
          /\ ccChanges[i].pos1 = 0 /\ ccChanges[j].pos1 = 0
          /\ ccChanges[i].length1 > 0 /\ ccChanges[j].length1 > 0

\* An if statement is split at the inner && of a nested condition.
C18_WitnessSplitNested ==
    /\ siPc = "performed"
    /\ siResult[1].condition.left.kind = "Binary"
    /\ ~hasOverlap(siChanges)

(***************************************************************************)
(* The registry of factories: g_cppQuickFixFactories, the constructor and  *)
(* the destructor of CppQuickFixFactory, createCppQuickFixes and           *)
(* destroyCppQuickFixes.  A factory is its serial number of construction;  *)
(* rgCreated[f] is its class.                                              *)
(***************************************************************************)
MaxFactories == 4

\* The classes createCppQuickFixes constructs, in its order (those of the
\* model).
CreatedClasses == [i \in 1..Len(cppQuickFixFactories) |-> cppQuickFixFactories[i].rule]

\* QList::removeOne: the list without the first occurrence of x.
RECURSIVE removeOne(_, _)
removeOne(list, x) ==
    IF list = <<>> THEN <<>>
    ELSE IF Head(list) = x THEN Tail(list)
    ELSE <<Head(list)>> \o removeOne(Tail(list), x)

\* CppQuickFixFactory::CppQuickFixFactory
CppQuickFixFactory_constructor(registry, this) == Append(registry, this)

\* A destructor that leaves the factory in the list.
CppQuickFixFactory_destructorKeeping(registry, this) == registry

\* CppQuickFixFactory::~CppQuickFixFactory
CppQuickFixFactory_destructor(registry, this) == removeOne(registry, this)

\* The registry state after the constructors of the classes of `classes`
\* ran one after the other.
RECURSIVE constructAll(_, _)
constructAll(state, classes) ==
    IF classes = <<>> THEN state
    ELSE LET this == Len(state.created) + 1
         IN constructAll([registry |-> CppQuickFixFactory_constructor(state.registry, this),
                          created |-> Append(state.created, Head(classes)),
                          destroyed |-> Append(state.destroyed, 0)],
                         Tail(classes))

\* The loop of destroyCppQuickFixes from index i (from 0) downwards.
RECURSIVE destroyFrom(_, _)
destroyFrom(state, i) ==
    IF i < 0 THEN state
    ELSE LET this == state.registry[i + 1]
         IN destroyFrom([state EXCEPT
                            !.registry = CppQuickFixFactory_destructor(state.registry, this),
                            !.destroyed[this] = state.destroyed[this] + 1],
                        i - 1)

rgState == [registry |-> rgRegistry, created |-> rgCreated, destroyed |-> rgDestroyed]

RegistrySet(state, last) ==
    /\ rgRegistry' = state.registry
    /\ rgCreated' = state.created
    /\ rgDestroyed' = state.destroyed
    /\ rgLast' = last
    /\ UNCHANGED rgOthers

RegistryInit ==
    /\ rgRegistry = <<>>
    /\ rgCreated = <<>>
    /\ rgDestroyed = <<>>
    /\ rgLast = "start"
    /\ rgOthersIdle

\* new of one factory class.
RegistryConstruct ==
    /\ Len(rgCreated) < MaxFactories
    /\ \E class \in {CreatedClasses[i] : i \in 1..Len(CreatedClasses)} :
          RegistrySet(constructAll(rgState, <<class>>), "construct")

\* delete of one live factory.
RegistryDestruct ==
    \E this \in {f \in 1..Len(rgCreated) : rgDestroyed[f] = 0} :
        RegistrySet([rgState EXCEPT
                        !.registry = CppQuickFixFactory_destructor(rgRegistry, this),
                        !.destroyed[this] = rgDestroyed[this] + 1],
                    "destruct")

RegistryCreateCppQuickFixes ==
    /\ Len(rgCreated) + Len(CreatedClasses) <= MaxFactories
    /\ RegistrySet(constructAll(rgState, CreatedClasses), "createCppQuickFixes")

RegistryDestroyCppQuickFixes ==
    RegistrySet(destroyFrom(rgState, Len(rgRegistry) - 1), "destroyCppQuickFixes")

RegistryNext ==
    \/ RegistryConstruct
    \/ RegistryDestruct
    \/ RegistryCreateCppQuickFixes
    \/ RegistryDestroyCppQuickFixes

SpecRegistry == RegistryInit /\ [][RegistryNext]_vars

\* The factories constructed and not destroyed.
rgLive == {f \in 1..Len(rgCreated) : rgDestroyed[f] = 0}

\* C21: the registry holds exactly the live factories, each once, in the
\* order of their construction; after destroyCppQuickFixes it is empty and
\* every factory ever registered has been destroyed exactly once.
C21_RegistryHoldsLiveFactories ==
    /\ {rgRegistry[i] : i \in 1..Len(rgRegistry)} = rgLive
    /\ \A i, j \in 1..Len(rgRegistry) : i < j => rgRegistry[i] < rgRegistry[j]
    /\ rgLast = "destroyCppQuickFixes" =>
          /\ rgRegistry = <<>>
          /\ \A f \in 1..Len(rgCreated) : rgDestroyed[f] = 1

\* destroyCppQuickFixes ran after three or more factories had been
\* constructed: the registry is empty and each has been destroyed once.
C21_Witness ==
    /\ rgLast = "destroyCppQuickFixes"
    /\ Len(rgCreated) >= 3
    /\ rgRegistry = <<>>
    /\ \A f \in 1..Len(rgCreated) : rgDestroyed[f] = 1

(***************************************************************************)
(* The extra formats of the syntax highlighter (tst_highlighter).  A       *)
(* format range is its start, its length, its look and whether it is an    *)
(* extra (semantic) format; a document is the list of the format ranges    *)
(* of each of its blocks, block numbers counting from 0.                   *)
(***************************************************************************)
MaxBlocks == 3

FormatRange(start, length, look, extra) ==
    [start |-> start, length |-> length, look |-> look, extra |-> extra]

\* The formats of the test: the format of white space, and formatHash[0]
\* (italic) and formatHash[1] (overline) applied as extra formats.
WhitespaceFormat(start) == FormatRange(start, 1, "whitespace", FALSE)
ItalicFormat(start, length) == FormatRange(start, length, "italic", TRUE)
OverlineFormat(start, length) == FormatRange(start, length, "overline", TRUE)

\* The document of the test after setExtraAdditionalFormats, as the test
\* finds it.
TestDocumentFormats ==
    << <<ItalicFormat(0, 5)>>,
       <<WhitespaceFormat(6), WhitespaceFormat(11), ItalicFormat(3, 7), OverlineFormat(16, 3)>>,
       <<OverlineFormat(0, 1)>>,
       <<OverlineFormat(0, 1), ItalicFormat(0, 5)>> >>

\* What the layout of one block may hold.
BlockFormats ==
    {<<>>, <<WhitespaceFormat(6)>>, <<ItalicFormat(0, 5)>>,
     <<WhitespaceFormat(6), ItalicFormat(3, 7)>>, <<ItalicFormat(3, 7), WhitespaceFormat(6)>>,
     <<OverlineFormat(0, 1), ItalicFormat(0, 5)>>}

\* The format ranges of a list that are no extra formats, in their order.
RECURSIVE withoutExtraFormats(_)
withoutExtraFormats(formats) ==
    IF formats = <<>> THEN <<>>
    ELSE (IF Head(formats).extra THEN <<>> ELSE <<Head(formats)>>)
             \o withoutExtraFormats(Tail(formats))

\* A clearing that drops every format of the block.
clearExtraFormatsOfBlockAll(document, blockNumber) ==
    IF blockNumber \notin 0..(Len(document) - 1) THEN document
    ELSE [document EXCEPT ![blockNumber + 1] = <<>>]

\* SyntaxHighlighter::clearExtraFormats(block): the layout of the block
\* keeps the formats that are no extra formats; a block number the
\* document does not have names no block.
clearExtraFormatsOfBlock(document, blockNumber) ==
    IF blockNumber \notin 0..(Len(document) - 1) THEN document
    ELSE [document EXCEPT ![blockNumber + 1] = withoutExtraFormats(document[blockNumber + 1])]

\* clearExtraFormats(blockNumbers): one block after the other.
RECURSIVE clearExtraFormats(_, _)
clearExtraFormats(document, blockNumbers) ==
    IF blockNumbers = <<>> THEN document
    ELSE clearExtraFormats(clearExtraFormatsOfBlock(document, Head(blockNumbers)),
                           Tail(blockNumbers))

\* clearAllExtraFormats: every block from the first to the last.
clearAllExtraFormats(document) ==
    clearExtraFormats(document, [i \in 1..Len(document) |-> i - 1])

\* The lists of block numbers a call may be given: up to two numbers, a
\* number twice and a number past the last block included.
BlockNumberLists(document) ==
    LET numbers == 0..Len(document)
    IN {<<>>} \cup {<<b>> : b \in numbers} \cup {<<b, c>> : b \in numbers, c \in numbers}

HighlighterInit ==
    /\ \/ hlFormats = TestDocumentFormats
       \/ \E n \in 1..MaxBlocks : hlFormats \in [1..n -> BlockFormats]
    /\ hlBefore = hlFormats
    /\ hlCleared = <<>>
    /\ hlPc = "formatted"
    /\ hlOthersIdle

HighlighterClearExtraFormats ==
    /\ \E blockNumbers \in BlockNumberLists(hlFormats) :
          /\ hlFormats' = clearExtraFormats(hlFormats, blockNumbers)
          /\ hlCleared' = blockNumbers
    /\ hlBefore' = hlFormats
    /\ hlPc' = "cleared"
    /\ UNCHANGED hlOthers

HighlighterClearAllExtraFormats ==
    /\ hlFormats' = clearAllExtraFormats(hlFormats)
    /\ hlCleared' = <<>>
    /\ hlBefore' = hlFormats
    /\ hlPc' = "clearedAll"
    /\ UNCHANGED hlOthers

HighlighterNext == HighlighterClearExtraFormats \/ HighlighterClearAllExtraFormats

SpecHighlighter == HighlighterInit /\ [][HighlighterNext]_vars

\* The blocks (numbers from 0) the last clearing call was about.
hlListed ==
    IF hlPc = "clearedAll" THEN 0..(Len(hlBefore) - 1)
    ELSE {hlCleared[i] : i \in 1..Len(hlCleared)}

\* The format ranges of `formats` that are no extra formats, as the
\* positions kept.
hlKeptPositions(formats) == {i \in 1..Len(formats) : ~formats[i].extra}

tokenToInsertOpeningBraceAfter(stmt) ==
    IF stmt.kind = "DoStatement" THEN stmt.do_token ELSE stmt.rparen_token

\* The two insertions of the loop of perform for one statement.
BracesOfStatement(stmt) ==
    <<Insert(endOf(tokenToInsertOpeningBraceAfter(stmt)), <<" ", "{">>)>>
        \o (IF stmt.kind = "DoStatement"
            THEN <<Insert(startOf(stmt.while_token), <<"}", " ">>)>>
            ELSE IF stmt.kind = "IfStatement"
                 THEN IF stmt.else_statement.kind # "null"
                      THEN <<Insert(startOf(stmt.else_token), <<"}", " ">>)>>
                      ELSE <<Insert(endOf(stmt.statement.last), <<"\n", "}">>)>>
            ELSE <<Insert(endOf(stmt.statement.last), <<"\n", "}">>)>>)

RECURSIVE BracesOfStatements(_)
BracesOfStatements(statements) ==
    IF statements = <<>> THEN <<>>
    ELSE BracesOfStatement(Head(statements)) \o BracesOfStatements(Tail(statements))

\* A perform that leaves the else statement as it is.
AddBracesToControlStatementOp_performNoElse(op) == BracesOfStatements(op.statements)

\* AddBracesToControlStatementOp::perform: the primitives of its ChangeSet.
AddBracesToControlStatementOp_perform(op) ==
    BracesOfStatements(op.statements)
        \o (IF op.elseStatement.kind # "null"
            THEN <<Insert(endOf(op.elseToken), <<" ", "{">>),
                   Insert(endOf(op.elseStatement.last), <<"\n", "}">>)>>
            ELSE <<>>)

AddBracesPerform ==
    /\ abPc = "matched"
    /\ \E i \in 1..Len(abResult) :
          abChanges' = AddBracesToControlStatementOp_perform(abResult[i])
    /\ abPc' = "performed"
    /\ UNCHANGED <<abInput, abResult, abOthers>>

AddBracesPerformNext == AddBracesMatch \/ AddBracesPerform

SpecAddBracesPerform == AddBracesInit /\ [][AddBracesPerformNext]_vars

(***************************************************************************)
(* What the claim about the else branches of an if chain speaks of.        *)
(***************************************************************************)
\* The statement doMatch looks at: the last node of the path.
abReached ==
    LET path == AddBracesPath(abInput.stmt, abInput.cursor)
    IN IF path = <<>> THEN [kind |-> "null"] ELSE path[Len(path)]

\* The else-if statements of the chain that starts at an if statement.
RECURSIVE abElseIfs(_)
abElseIfs(ifStmt) ==
    IF ifStmt.else_statement.kind = "IfStatement"
    THEN {ifStmt.else_statement} \cup abElseIfs(ifStmt.else_statement)
    ELSE {}

\* The last if statement of the chain, the one that holds the trailing else.
RECURSIVE abLastIf(_)
abLastIf(ifStmt) ==
    IF ifStmt.else_statement.kind = "IfStatement" THEN abLastIf(ifStmt.else_statement)
    ELSE ifStmt

\* The ChangeSet puts an opening brace between the tokens `after` and
\* body.first and a closing brace between the last token of the body and
\* the token that follows it.
abBraced(after, body) ==
    /\ \E i \in 1..Len(abChanges) :
          /\ abChanges[i].type = "Insert" /\ abChanges[i].text = <<" ", "{">>
          /\ abChanges[i].pos1 >= endOf(after) /\ abChanges[i].pos1 <= startOf(body.first)
    /\ \E i \in 1..Len(abChanges) :
          /\ abChanges[i].type = "Insert"
          /\ abChanges[i].text \in {<<"}", " ">>, <<"\n", "}">>}
          /\ abChanges[i].pos1 >= endOf(body.last)
          /\ abChanges[i].pos1 <= startOf(body.last + 1)

\* The trailing else statement of the chain is one without braces.
abElseQualifies(ifStmt) ==
    abLastIf(ifStmt).else_statement.kind \notin {"null", "IfStatement", "CompoundStatement"}

\* Some body of the chain is to get braces: the body of the first if with
\* the cursor on its if token, an else-if body, or the trailing else.
abSomeBodyQualifies(ifStmt) ==
    \/ isCursorOn(abInput.cursor, ifStmt.if_token) /\ NeedsBraces(ifStmt)
    \/ \E s \in abElseIfs(ifStmt) : NeedsBraces(s)
    \/ abElseQualifies(ifStmt)

\* C23: for the if chain doMatch reaches, the operation puts braces around
\* the trailing else statement exactly if it exists and is neither an if
\* statement nor a compound statement, and around the body of every
\* else-if whose body is no compound statement; no operation is offered
\* when no body of the chain qualifies.
C23_ElseChainBraced ==
    abReached.kind = "IfStatement" =>
        /\ abPc = "matched" => (abResult # <<>> <=> abSomeBodyQualifies(abReached))
        /\ abPc = "performed" =>
              /\ LET last == abLastIf(abReached)
                 IN IF abElseQualifies(abReached)
                    THEN abBraced(last.else_token, last.else_statement)
                    ELSE \/ last.else_statement.kind = "null"
                         \/ ~abBraced(last.else_token, last.else_statement)
              /\ \A s \in abElseIfs(abReached) :
                    IF NeedsBraces(s) THEN abBraced(s.rparen_token, s.statement)
                    ELSE s.statement.kind = "null" \/ ~abBraced(s.rparen_token, s.statement)

\* if (c) {} else if (c) x; else if (c) {} else y; with the cursor off the
\* first if token: the operation was performed and put braces around x and y.
C23_Witness ==
    /\ abPc = "performed"
    /\ abReached.kind = "IfStatement"
    /\ ~isCursorOn(abInput.cursor, abReached.if_token)
    /\ abReached.statement.kind = "CompoundStatement"
    /\ Cardinality(abElseIfs(abReached)) = 2
    /\ \E s \in abElseIfs(abReached) : NeedsBraces(s)
    /\ \E s \in abElseIfs(abReached) : s.statement.kind = "CompoundStatement"
    /\ abElseQualifies(abReached)
    /\ Len(abChanges) = 4

(***************************************************************************)
(* CMakeBuildSystem: requests to parse, parse runs, their outcomes and     *)
(* the scan of the project tree.  cmState holds                            *)
(*   waitingForParse, combinedScanAndParseResult: the two members,         *)
(*   guard: whether m_currentGuard guards the project,                     *)
(*   reader: "idle" | "parsing", scanning: the tree scanner runs,          *)
(*   check: what the QTC_ASSERT / QTC_CHECK on m_waitingForParse found in  *)
(*          the handler that ran last ("none" when it met none).           *)
(* Flags are sets of the names of the bits of ReparseParameters.           *)
(***************************************************************************)
REPARSE_DEFAULT == {}
REPARSE_FORCE_CMAKE_RUN == {"FORCE_CMAKE_RUN"}
REPARSE_FORCE_INITIAL_CONFIGURATION == {"FORCE_INITIAL_CONFIGURATION"}
REPARSE_FORCE_EXTRA_CONFIGURATION == {"FORCE_EXTRA_CONFIGURATION"}
REPARSE_URGENT == {"URGENT"}
REPARSE_DEBUG == {"DEBUG"}
REPARSE_PROFILING == {"PROFILING"}

\* The flags the callers of reparse pass: becameDirty, the environment
\* change, runCMake, requestDebugging, runCMakeWithProfiling and the
\* build directory change without a cache.
ReparseRequests ==
    {REPARSE_DEFAULT,
     REPARSE_FORCE_CMAKE_RUN,
     REPARSE_FORCE_CMAKE_RUN \cup REPARSE_URGENT,
     REPARSE_FORCE_CMAKE_RUN \cup REPARSE_FORCE_EXTRA_CONFIGURATION \cup REPARSE_URGENT
         \cup REPARSE_DEBUG,
     REPARSE_FORCE_CMAKE_RUN \cup REPARSE_URGENT \cup REPARSE_FORCE_EXTRA_CONFIGURATION
         \cup REPARSE_PROFILING,
     REPARSE_FORCE_INITIAL_CONFIGURATION \cup REPARSE_FORCE_CMAKE_RUN}

\* stopParsingAndClearState: the reader is stopped and reports nothing more.
stopParsingAndClearState(st) == [st EXCEPT !.reader = "idle"]

\* updateFallbackProjectData: the scan of the project tree is started.
updateFallbackProjectData(st) == [st EXCEPT !.scanning = TRUE]

\* combineScanAndParse
combineScanAndParse(st, active) ==
    IF ~active THEN st
    ELSE IF st.waitingForParse THEN st
    ELSE IF st.combinedScanAndParseResult
         THEN [st EXCEPT !.guard = FALSE]
         ELSE updateFallbackProjectData(st)

\* handleParsingSucceeded
handleParsingSucceeded(st, active) ==
    IF ~active THEN [stopParsingAndClearState(st) EXCEPT !.check = "none"]
    ELSE IF ~st.waitingForParse THEN [st EXCEPT !.check = "failed"]
    ELSE combineScanAndParse([st EXCEPT !.check = "ok", !.waitingForParse = FALSE], active)

\* handleParsingFailed
handleParsingFailed(st, active) ==
    combineScanAndParse([st EXCEPT !.check = IF st.waitingForParse THEN "ok" ELSE "failed",
                                   !.waitingForParse = FALSE,
                                   !.combinedScanAndParseResult = FALSE],
                        active)

\* ensureBuildDirectory: a build directory that cannot be created or
\* reached is reported as a failed parse.
ensureBuildDirectory(st, active, directoryOk) ==
    IF directoryOk THEN st ELSE handleParsingFailed(st, active)

\* An update that forgets the flags requested before.
updateReparseParametersAssigning(m_reparseParameters, parameters) == parameters

\* updateReparseParameters
updateReparseParameters(m_reparseParameters, parameters) ==
    m_reparseParameters \cup parameters

\* updateFileSystemNodes
updateFileSystemNodes(st) == [st EXCEPT !.guard = FALSE]

\* The arguments of m_reader.parse that are true, by the flag they come from.
HandedToReader(reparseParameters, isDebuggable) ==
    (reparseParameters \cap (REPARSE_FORCE_CMAKE_RUN \cup REPARSE_FORCE_INITIAL_CONFIGURATION
                                \cup REPARSE_FORCE_EXTRA_CONFIGURATION \cup REPARSE_PROFILING))
        \cup (IF isDebuggable THEN reparseParameters \cap REPARSE_DEBUG ELSE {})

CMakeInit ==
    /\ cmActive \in BOOLEAN
    /\ cmState = [waitingForParse |-> FALSE, combinedScanAndParseResult |-> FALSE,
                  guard |-> FALSE, reader |-> "idle", scanning |-> FALSE, check |-> "none"]
    /\ cmReparseParameters = REPARSE_DEFAULT
    /\ cmRequested = FALSE
    /\ cmDebuggable \in BOOLEAN
    /\ cmSince = {}
    /\ cmTaken = {}
    /\ cmHanded = {}
    /\ cmLast = "constructed"
    /\ cmOthersIdle

\* setParametersAndRequestParse with a valid CMake tool.
CMakeSetParametersAndRequestParse(active, reparseParameters, directoryOk) ==
    /\ cmActive' = active
    /\ IF ~active
       THEN /\ cmState' = [stopParsingAndClearState(cmState) EXCEPT !.check = "none"]
            /\ UNCHANGED <<cmReparseParameters, cmRequested, cmSince>>
       ELSE /\ cmState' = ensureBuildDirectory([cmState EXCEPT !.check = "none"], active,
                                               directoryOk)
            /\ cmReparseParameters' = updateReparseParameters(cmReparseParameters,
                                                              reparseParameters)
            /\ cmSince' = cmSince \cup reparseParameters
            /\ cmRequested' = TRUE
    /\ cmLast' = "setParametersAndRequestParse"
    /\ UNCHANGED <<cmDebuggable, cmTaken, cmHanded, cmOthers>>

\* reparse, called for one of the reasons of ReparseRequests.
CMakeReparse ==
    \E reparseParameters \in ReparseRequests, directoryOk \in BOOLEAN :
        CMakeSetParametersAndRequestParse(cmActive, reparseParameters, directoryOk)

\* The build configuration becomes active or inactive; the connected
\* handler calls reparse(REPARSE_DEFAULT).
CMakeActiveChanged ==
    \E directoryOk \in BOOLEAN :
        CMakeSetParametersAndRequestParse(~cmActive, REPARSE_DEFAULT, directoryOk)

\* triggerParsing, when the timer of a requested parse fires.
CMakeTriggerParsing ==
    /\ cmRequested
    /\ cmRequested' = FALSE
    /\ \E cacheExists \in BOOLEAN, mustApply \in BOOLEAN :
          IF ~cmActive
          THEN /\ cmState' = [stopParsingAndClearState(cmState) EXCEPT !.check = "none"]
               /\ cmLast' = "triggerParsing: skipped"
               /\ UNCHANGED <<cmReparseParameters, cmSince, cmTaken, cmHanded>>
          ELSE LET guarded == IF cmState.guard
                              THEN stopParsingAndClearState(cmState)
                              ELSE [cmState EXCEPT !.guard = TRUE]
               IN IF guarded.reader = "parsing"
                  THEN /\ cmState' = [guarded EXCEPT !.check = "none"]
                       /\ cmLast' = "triggerParsing: reader is parsing"
                       /\ UNCHANGED <<cmReparseParameters, cmSince, cmTaken, cmHanded>>
                  ELSE LET taken == cmReparseParameters
                           withCache ==
                               IF cacheExists THEN taken
                               ELSE taken \cup REPARSE_FORCE_INITIAL_CONFIGURATION
                                          \cup REPARSE_FORCE_CMAKE_RUN
                           reparseParameters ==
                               IF withCache \cap REPARSE_FORCE_EXTRA_CONFIGURATION = {}
                                  /\ mustApply
                               THEN withCache \cup REPARSE_FORCE_CMAKE_RUN
                                              \cup REPARSE_FORCE_EXTRA_CONFIGURATION
                               ELSE withCache
                       IN /\ cmReparseParameters' = REPARSE_DEFAULT
                          /\ cmState' = [guarded EXCEPT !.waitingForParse = TRUE,
                                                        !.combinedScanAndParseResult = TRUE,
                                                        !.reader = "parsing",
                                                        !.check = "none"]
                          /\ cmTaken' = cmSince
                          /\ cmSince' = {}
                          /\ cmHanded' = HandedToReader(reparseParameters, cmDebuggable)
                          /\ cmLast' = "triggerParsing: parse"
    /\ UNCHANGED <<cmActive, cmDebuggable, cmOthers>>

\* The reader reports dataAvailable.
CMakeParsingSucceeded ==
    /\ cmState.reader = "parsing"
    /\ cmState' = handleParsingSucceeded([cmState EXCEPT !.reader = "idle"], cmActive)
    /\ cmLast' = "handleParsingSucceeded"
    /\ UNCHANGED <<cmActive, cmReparseParameters, cmRequested, cmDebuggable, cmSince,
                   cmTaken, cmHanded, cmOthers>>

\* The reader reports errorOccurred.
CMakeParsingFailed ==
    /\ cmState.reader = "parsing"
    /\ cmState' = handleParsingFailed([cmState EXCEPT !.reader = "idle"], cmActive)
    /\ cmLast' = "handleParsingFailed"
    /\ UNCHANGED <<cmActive, cmReparseParameters, cmRequested, cmDebuggable, cmSince,
                   cmTaken, cmHanded, cmOthers>>

\* The tree scanner reports finished.
CMakeTreeScanningFinished ==
    /\ cmState.scanning
    /\ cmState' = updateFileSystemNodes([cmState EXCEPT !.scanning = FALSE, !.check = "none"])
    /\ cmLast' = "handleTreeScanningFinished"
    /\ UNCHANGED <<cmActive, cmReparseParameters, cmRequested, cmDebuggable, cmSince,
                   cmTaken, cmHanded, cmOthers>>

CMakeNext ==
    \/ CMakeReparse
    \/ CMakeActiveChanged
    \/ CMakeTriggerParsing
    \/ CMakeParsingSucceeded
    \/ CMakeParsingFailed
    \/ CMakeTreeScanningFinished

SpecCMake == CMakeInit /\ [][CMakeNext]_vars

\* The timer of a requested parse fires, the reader reports the outcome of
\* a parse run and a started scan finishes.
SpecCMakeFair ==
    /\ SpecCMake
    /\ WF_vars(CMakeTriggerParsing)
    /\ WF_vars(CMakeParsingSucceeded \/ CMakeParsingFailed)
    /\ WF_vars(CMakeTreeScanningFinished)

\* C24: whenever handleParsingSucceeded or handleParsingFailed runs,
\* m_waitingForParse is true: the QTC_ASSERT and the QTC_CHECK on it never
\* fail.
C24_ParseOutcomeOnlyWhenWaiting == cmState.check # "failed"

\* C24, what the code does: the check fails only in handleParsingFailed
\* called by ensureBuildDirectory, and in a handler for the outcome of a
\* parse run that such a call has declared failed before.
C24_ChecksHoldButForDirectoryFailures ==
    cmState.check = "failed" =>
        \/ cmLast = "setParametersAndRequestParse"
        \/ cmLast \in {"handleParsingSucceeded", "handleParsingFailed"}


\* C24: a state in which ensureBuildDirectory has reported a failed parse
\* while no parse run was waited for.
C24_WitnessDirectoryFailure ==
    /\ cmLast = "setParametersAndRequestParse"
    /\ cmState.check = "failed"

\* C25, as stated: every flag passed to a setParametersAndRequestParse call
\* that requested a parse since the last parse run is contained in the
\* flags the next triggerParsing hands to the reader, and once
\* triggerParsing has taken them the pending flags are REPARSE_DEFAULT.
C25_RequestedFlagsReachReader ==
    cmLast = "triggerParsing: parse" =>
        /\ cmTaken \subseteq cmHanded
        /\ cmReparseParameters = REPARSE_DEFAULT

\* C25, amended: every flag other than REPARSE_URGENT, and other than
\* REPARSE_DEBUG when the CMake tool is older than 3.27, that was passed to
\* a setParametersAndRequestParse call that requested a parse since the
\* last parse run is among the arguments of the reader's parse in the next
\* triggerParsing that starts a parse run, and after it the pending flags
\* are REPARSE_DEFAULT.
C25_RequestedFlagsButUrgentReachReader ==
    cmLast = "triggerParsing: parse" =>
        /\ (cmTaken \ (REPARSE_URGENT \cup (IF cmDebuggable THEN {} ELSE REPARSE_DEBUG)))
               \subseteq cmHanded
        /\ cmReparseParameters = REPARSE_DEFAULT

\* C25: a parse run started after two requests with different flags.
C25_Witness ==
    /\ cmLast = "triggerParsing: parse"
    /\ (REPARSE_PROFILING \cup REPARSE_FORCE_INITIAL_CONFIGURATION) \subseteq cmTaken
    /\ (REPARSE_PROFILING \cup REPARSE_FORCE_INITIAL_CONFIGURATION) \subseteq cmHanded


\* C26: every parse guard stored in m_currentGuard by triggerParsing is
\* eventually released, when the reader reports the outcome of every parse
\* run and every started tree scan finishes, also when the build
\* configuration becomes inactive while the parse is running.
C26_GuardEventuallyReleased == cmState.guard ~> ~cmState.guard

\* C26: a state in which the guard is stored, the build configuration is
\* inactive and the reader has been stopped, so that no outcome follows.
C26_WitnessInactiveWithGuard ==
    /\ cmState.guard
    /\ ~cmActive
    /\ cmState.reader = "idle"
    /\ ~cmState.scanning
    /\ ~cmRequested

(***************************************************************************)
(* ClangToolRunner: run() starts m_process; init() has connected the       *)
(* process's finished and errorOccurred to onProcessFinished and           *)
(* onProcessError.  The process reports FailedToStart instead of starting, *)
(* ReadError, WriteError, Timedout or UnknownError while it runs, Crashed  *)
(* followed by finished(CrashExit) when it crashes, and finished           *)
(* (NormalExit) with its exit code when it exits.                          *)
(***************************************************************************)
MaxRuns == 2
MaxProcessErrors == 2
MaxExitCode == 1

\* The errors of QProcess::ProcessError a running process can report and
\* keep running.
RunningErrors == {"Timedout", "ReadError", "WriteError", "UnknownError"}

\* ClangToolRunner::onProcessFinished
onProcessFinished(signals, exitCode, exitStatus) ==
    IF exitStatus = "NormalExit"
    THEN IF exitCode = 0
         THEN Append(signals, "finishedWithSuccess")
         ELSE Append(signals, "finishedWithFailure")
    ELSE Append(signals, "finishedWithFailure")

\* ClangToolRunner::onProcessError
onProcessError(signals, error) ==
    IF error = "Crashed" THEN signals ELSE Append(signals, "finishedWithFailure")

ClangToolInit ==
    /\ ctProcess = "NotRunning"
    /\ ctSignals = <<>>
    /\ ctErrors = <<>>
    /\ ctExit = NoInput
    /\ ctRuns = 0
    /\ ctOthersIdle

\* ClangToolRunner::run; it returns false without starting the process when
\* no executable is set or the output file cannot be created.
ClangToolRun ==
    /\ ctProcess = "NotRunning"
    /\ ctRuns < MaxRuns
    /\ ctRuns' = ctRuns + 1
    /\ \E executableSet \in BOOLEAN, outputFileCreated \in BOOLEAN :
          /\ ctProcess' = IF executableSet /\ outputFileCreated THEN "Starting"
                          ELSE "NotRunning"
          /\ ctSignals' = <<>>
          /\ ctErrors' = <<>>
          /\ ctExit' = NoInput
    /\ UNCHANGED ctOthers

\* The process cannot be started: errorOccurred(FailedToStart).
ClangToolFailedToStart ==
    /\ ctProcess = "Starting"
    /\ ctProcess' = "NotRunning"
    /\ ctErrors' = Append(ctErrors, "FailedToStart")
    /\ ctSignals' = onProcessError(ctSignals, "FailedToStart")
    /\ UNCHANGED <<ctExit, ctRuns, ctOthers>>

\* The process has started.
ClangToolStarted ==
    /\ ctProcess = "Starting"
    /\ ctProcess' = "Running"
    /\ UNCHANGED <<ctSignals, ctErrors, ctExit, ctRuns, ctOthers>>

\* The running process reports an error and keeps running.
ClangToolErrorOccurred ==
    /\ ctProcess = "Running"
    /\ Len(ctErrors) < MaxProcessErrors
    /\ \E error \in RunningErrors :
          /\ ctErrors' = Append(ctErrors, error)
          /\ ctSignals' = onProcessError(ctSignals, error)
    /\ UNCHANGED <<ctProcess, ctExit, ctRuns, ctOthers>>

\* The process crashes: errorOccurred(Crashed), finished follows.
ClangToolCrashed ==
    /\ ctProcess = "Running"
    /\ ctProcess' = "Crashed"
    /\ ctErrors' = Append(ctErrors, "Crashed")
    /\ ctSignals' = onProcessError(ctSignals, "Crashed")
    /\ UNCHANGED <<ctExit, ctRuns, ctOthers>>

\* finished(exitCode, exitStatus) of a process that exited or crashed.
ClangToolFinished ==
    /\ ctProcess \in {"Running", "Crashed"}
    /\ ctProcess' = "NotRunning"
    /\ \E exitCode \in 0..MaxExitCode :
          LET exitStatus == IF ctProcess = "Crashed" THEN "CrashExit" ELSE "NormalExit"
          IN /\ ctExit' = [exitStatus |-> exitStatus, exitCode |-> exitCode]
             /\ ctSignals' = onProcessFinished(ctSignals, exitCode, exitStatus)
    /\ UNCHANGED <<ctErrors, ctRuns, ctOthers>>

ClangToolNext ==
    \/ ClangToolRun
    \/ ClangToolFailedToStart
    \/ ClangToolStarted
    \/ ClangToolErrorOccurred
    \/ ClangToolCrashed
    \/ ClangToolFinished

SpecClangTool == ClangToolInit /\ [][ClangToolNext]_vars

\* The process started by the last run() has ended.
ctCompleted ==
    /\ ctProcess = "NotRunning"
    /\ \/ ctExit # NoInput
       \/ ctErrors # <<>>

\* C27: for each run() that started the process exactly one completion
\* signal is emitted, for every order and kind of the process events, and
\* finishedWithSuccess only for a normal exit with exit code 0.
C27_ExactlyOneCompletionSignal ==
    /\ Len(ctSignals) <= 1
    /\ ctCompleted => Len(ctSignals) = 1
    /\ \A i \in 1..Len(ctSignals) :
          ctSignals[i] = "finishedWithSuccess" =>
              ctExit = [exitStatus |-> "NormalExit", exitCode |-> 0]

\* C27, what the code does: one completion signal for the end of the
\* process and one more for every error but Crashed reported before it.
C27_OneSignalPerErrorAndEnd ==
    LET others == {i \in 1..Len(ctErrors) : ctErrors[i] # "Crashed"}
    IN /\ Len(ctSignals) = Cardinality(others) + (IF ctExit # NoInput THEN 1 ELSE 0)
       /\ \A i \in 1..Len(ctSignals) :
             ctSignals[i] = "finishedWithSuccess" =>
                 /\ i = Len(ctSignals)
                 /\ ctExit = [exitStatus |-> "NormalExit", exitCode |-> 0]

\* C27: a run that ended with exit code 0 after the process had reported a
\* read error: both completion signals were emitted.
C27_WitnessFailureThenSuccess ==
    ctSignals = <<"finishedWithFailure", "finishedWithSuccess">>

(***************************************************************************)
(* ProcessStartHandler: the open mode of the process, and what the two     *)
(* handlers of its start do with the initial write data and the write      *)
(* channel.  psLog lists the calls of write and closeWriteChannel on the   *)
(* process.                                                                *)
(***************************************************************************)
MaxWriteData == 3
MaxStartedCalls == 2

ProcessModes == {"Reader", "Writer"}
WriteBytes == {"a", "b"}

\* ProcessStartHandler::openMode
openMode(m_processMode, m_writeData) ==
    IF m_processMode = "Writer" THEN "ReadWrite"
    ELSE IF m_writeData = <<>> THEN "ReadOnly"
    ELSE "ReadWrite"

\* ProcessStartHandler::handleProcessStart: the calls it adds to the log.
handleProcessStart(m_processMode, m_writeData, log) ==
    IF m_processMode = "Writer" THEN log
    ELSE IF m_writeData = <<>> THEN Append(log, [call |-> "closeWriteChannel"])
    ELSE log

\* A handler that keeps the data it has written.
handleProcessStartedKeepingData(m_processMode, m_writeData, log) ==
    IF m_writeData # <<>>
    THEN [writeData |-> m_writeData,
          log |-> LET written == Append(log, [call |-> "write", data |-> m_writeData])
                  IN IF m_processMode = "Reader"
                     THEN Append(written, [call |-> "closeWriteChannel"])
                     ELSE written]
    ELSE [writeData |-> m_writeData, log |-> log]

\* ProcessStartHandler::handleProcessStarted: m_writeData and the log after it.
handleProcessStarted(m_processMode, m_writeData, log) ==
    IF m_writeData # <<>>
    THEN [writeData |-> <<>>,
          log |-> LET written == Append(log, [call |-> "write", data |-> m_writeData])
                  IN IF m_processMode = "Reader"
                     THEN Append(written, [call |-> "closeWriteChannel"])
                     ELSE written]
    ELSE [writeData |-> m_writeData, log |-> log]

ProcessStartInit ==
    /\ psMode \in ProcessModes
    /\ \E n \in 0..MaxWriteData : psWriteData \in [1..n -> WriteBytes]
    /\ psInitialData = psWriteData
    /\ psLog = <<>>
    /\ psCalls = <<>>
    /\ psOthersIdle

\* The process is about to be started.
ProcessStartHandleProcessStart ==
    /\ psCalls = <<>>
    /\ psCalls' = <<"handleProcessStart">>
    /\ psLog' = handleProcessStart(psMode, psWriteData, psLog)
    /\ UNCHANGED <<psMode, psWriteData, psInitialData, psOthers>>

\* The process reports that it has started.
ProcessStartHandleProcessStarted ==
    /\ psCalls # <<>>
    /\ Len(psCalls) <= MaxStartedCalls
    /\ psCalls' = Append(psCalls, "handleProcessStarted")
    /\ LET after == handleProcessStarted(psMode, psWriteData, psLog)
       IN /\ psWriteData' = after.writeData
          /\ psLog' = after.log
    /\ UNCHANGED <<psMode, psInitialData, psOthers>>

ProcessStartNext ==
    \/ ProcessStartHandleProcessStart
    \/ ProcessStartHandleProcessStarted

SpecProcessStart == ProcessStartInit /\ [][ProcessStartNext]_vars

\* The calls on the process after handleProcessStart alone.
psLogAtStart ==
    IF psMode = "Reader" /\ psInitialData = <<>>
    THEN <<[call |-> "closeWriteChannel"]>>
    ELSE <<>>

\* The calls on the process once handleProcessStarted has run as well.
psLogWhenStarted ==
    IF psInitialData = <<>>
    THEN psLogAtStart
    ELSE IF psMode = "Reader"
         THEN <<[call |-> "write", data |-> psInitialData], [call |-> "closeWriteChannel"]>>
         ELSE <<[call |-> "write", data |-> psInitialData]>>

\* C28: over handleProcessStart then handleProcessStarted the initial write
\* data is written at most once; the write channel is closed exactly once
\* in Reader mode, at the start when there is no data and otherwise right
\* after the data is written, and never in Writer mode; openMode() is
\* ReadOnly exactly when the mode is not Writer and there is no write data.
C28_WriteOnceCloseOnce ==
    /\ Len(psCalls) = 1 => psLog = psLogAtStart
    /\ Len(psCalls) >= 2 => psLog = psLogWhenStarted
    /\ Cardinality({i \in 1..Len(psLog) : psLog[i].call = "write"}) <= 1
    /\ Len(psCalls) >= 2 =>
          Cardinality({i \in 1..Len(psLog) : psLog[i].call = "closeWriteChannel"})
              = (IF psMode = "Reader" THEN 1 ELSE 0)
    /\ openMode(psMode, psWriteData) = "ReadOnly"
          <=> (psMode # "Writer" /\ psWriteData = <<>>)

\* C28: a reader with write data has started, and handleProcessStarted has
\* run a second time.
C28_Witness ==
    /\ psMode = "Reader"
    /\ Len(psInitialData) >= 2
    /\ Len(psCalls) = 3
    /\ Len(psLog) = 2

(***************************************************************************)
(* TestResultsPane: the enabled state of the buttons Run All, Run Selected *)
(* and Stop, as set by createToolButtons and by the handlers of the test   *)
(* runner's testRunStarted and testRunFinished and of the test tree        *)
(* model's testTreeModelChanged.                                           *)
(***************************************************************************)
MaxTests == 3
MaxTestRuns == 3
MaxModelChanges == 3

\* The three buttons after TestResultsPane::onTestRunStarted.
onTestRunStarted ==
    [stopTestRun |-> TRUE, runAll |-> FALSE, runSelected |-> FALSE]

\* The three buttons after TestResultsPane::onTestRunFinished.
onTestRunFinished ==
    [stopTestRun |-> FALSE, runAll |-> TRUE, runSelected |-> TRUE]

\* The three buttons after TestResultsPane::onTestTreeModelChanged.
onTestTreeModelChanged(stopTestRun, hasTests) ==
    [stopTestRun |-> stopTestRun, runAll |-> hasTests, runSelected |-> hasTests]

\* createToolButtons: new buttons are enabled, Stop is disabled.
TestResultsPaneInit ==
    /\ tpRunAll = TRUE
    /\ tpRunSelected = TRUE
    /\ tpStopTestRun = FALSE
    /\ tpRunning = FALSE
    /\ tpTests \in 0..MaxTests
    /\ tpStarted = 0
    /\ tpChanges = 0
    /\ tpOthersIdle

\* The test runner emits testRunStarted.
TestResultsPaneTestRunStarted ==
    /\ ~tpRunning
    /\ tpStarted < MaxTestRuns
    /\ tpStarted' = tpStarted + 1
    /\ tpRunning' = TRUE
    /\ tpChanges' = 0
    /\ tpStopTestRun' = onTestRunStarted.stopTestRun
    /\ tpRunAll' = onTestRunStarted.runAll
    /\ tpRunSelected' = onTestRunStarted.runSelected
    /\ UNCHANGED <<tpTests, tpOthers>>

\* The test runner emits testRunFinished.
TestResultsPaneTestRunFinished ==
    /\ tpRunning
    /\ tpRunning' = FALSE
    /\ tpChanges' = 0
    /\ tpStopTestRun' = onTestRunFinished.stopTestRun
    /\ tpRunAll' = onTestRunFinished.runAll
    /\ tpRunSelected' = onTestRunFinished.runSelected
    /\ UNCHANGED <<tpTests, tpStarted, tpOthers>>

\* The test tree model has changed and emits testTreeModelChanged.
TestResultsPaneTestTreeModelChanged ==
    /\ tpChanges < MaxModelChanges
    /\ tpChanges' = tpChanges + 1
    /\ \E tests \in 0..MaxTests :
          /\ tpTests' = tests
          /\ LET after == onTestTreeModelChanged(tpStopTestRun, tests > 0)
             IN /\ tpStopTestRun' = after.stopTestRun
                /\ tpRunAll' = after.runAll
                /\ tpRunSelected' = after.runSelected
    /\ UNCHANGED <<tpRunning, tpStarted, tpOthers>>

TestResultsPaneNext ==
    \/ TestResultsPaneTestRunStarted
    \/ TestResultsPaneTestRunFinished
    \/ TestResultsPaneTestTreeModelChanged

SpecTestResultsPane == TestResultsPaneInit /\ [][TestResultsPaneNext]_vars

\* C29: while a test run is in progress Run All and Run Selected are
\* disabled and Stop is enabled, for every interleaving of
\* testTreeModelChanged with the run; outside a run Stop is disabled.
C29_ButtonsFollowTheRun ==
    /\ tpRunning => (~tpRunAll /\ ~tpRunSelected /\ tpStopTestRun)
    /\ ~tpRunning => ~tpStopTestRun

\* C29, what the code does: Stop is enabled exactly during a run; the two
\* run buttons are disabled during a run until the test tree model changes,
\* and follow hasTests() after a change of the model.
C29_StopFollowsTheRun ==
    /\ tpStopTestRun <=> tpRunning
    /\ tpRunAll <=> tpRunSelected
    /\ (tpRunning /\ tpChanges = 0) => ~tpRunAll
    /\ tpChanges > 0 => (tpRunAll <=> tpTests > 0)

\* C29: a run is in progress and Run All is enabled, after a change of a
\* test tree model that has tests.
C29_WitnessEnabledDuringRun ==
    /\ tpRunning
    /\ tpRunAll
    /\ tpRunSelected
    /\ tpTests > 0

(***************************************************************************)
(* ModelResourceManagement::removeNode.  A model is a sequence of nodes,   *)
(* node 1 being the root; a ModelNode is its index, by which nodes are     *)
(* ordered.  A property is the number 100 * owner + name, the name being 0 *)
(* for "layer.enabled" and n for the alias export of node n in the root.   *)
(* No node of the models has a "targets" binding, so that the lists of     *)
(* RemoveTargetsSources are empty; state names are pairwise different.     *)
(***************************************************************************)
MaxNodes == 4

StateNames == {"a", "b"}

\* The nodes other than the root: items (plain, exported by an alias of the
\* root, or the layer.effect of a parent that has layer.enabled), states,
\* transitions and nodes with a target binding.
NodeShapes ==
    [type : {"Item"}, parent : 1..MaxNodes, detail : {"plain", "alias", "layer.effect"}]
    \cup [type : {"State"}, parent : 1..MaxNodes, name : StateNames]
    \cup [type : {"Transition"}, parent : 1..MaxNodes,
          from : StateNames \cup {"*"}, to : StateNames \cup {"*"}]
    \cup [type : {"PropertyChanges"}, parent : 1..MaxNodes, target : 1..MaxNodes]

RootNode == [type |-> "Item", parent |-> 0, detail |-> "plain"]

\* std::sort of a list of nodes or properties.
RECURSIVE sort(_)
sort(list) ==
    IF list = <<>> THEN <<>>
    ELSE LET least == CHOOSE i \in 1..Len(list) : \A j \in 1..Len(list) : list[i] <= list[j]
         IN <<list[least]>>
                \o sort(SubSeq(list, 1, least - 1) \o SubSeq(list, least + 1, Len(list)))

\* std::set_union of two sorted lists.
RECURSIVE set_union(_, _)
set_union(first, second) ==
    IF first = <<>> THEN second
    ELSE IF second = <<>> THEN first
    ELSE IF first[1] < second[1] THEN <<first[1]>> \o set_union(Tail(first), second)
    ELSE IF second[1] < first[1] THEN <<second[1]>> \o set_union(first, Tail(second))
    ELSE <<first[1]>> \o set_union(Tail(first), Tail(second))

\* std::set_difference of two sorted lists.
RECURSIVE set_difference(_, _)
set_difference(first, second) ==
    IF first = <<>> THEN <<>>
    ELSE IF second = <<>> THEN first
    ELSE IF first[1] < second[1] THEN <<first[1]>> \o set_difference(Tail(first), second)
    ELSE IF second[1] < first[1] THEN set_difference(first, Tail(second))
    ELSE set_difference(Tail(first), Tail(second))

\* The elements of the list that satisfy the test, mapped by the operator.
collect(list, Test(_), Map(_)) ==
    LET upTo[i \in 0..Len(list)] ==
            IF i = 0 THEN <<>>
            ELSE upTo[i - 1] \o (IF Test(list[i]) THEN Map(list[i]) ELSE <<>>)
    IN upTo[Len(list)]

AllNodes(model) == [i \in 1..Len(model) |-> i]

\* ModelNode::directSubModelNodes
directSubModelNodes(model, node) ==
    SelectSeq(AllNodes(model), LAMBDA n : model[n].parent = node)

\* createDependenciesSet: the node dependencies, (target, source), of the
\* TargetFilter and of the TransitionFilter, sorted.
nodeDependencies(model) ==
    LET nodes == AllNodes(model)
        stateNamed(name) == SelectSeq(nodes, LAMBDA s : model[s].type = "State"
                                                         /\ model[s].name = name)
        ofTransition(n, name) ==
            IF name = "*" THEN <<>>
            ELSE collect(stateNamed(name), LAMBDA s : TRUE, LAMBDA s : <<100 * s + n>>)
        ofNode(n) ==
            IF model[n].type = "PropertyChanges"
            THEN (IF model[n].target \in 1..Len(model) THEN <<100 * model[n].target + n>>
                  ELSE <<>>)
            ELSE IF model[n].type = "Transition"
            THEN ofTransition(n, model[n].to) \o ofTransition(n, model[n].from)
            ELSE <<>>
    IN sort(collect(nodes, LAMBDA n : TRUE, ofNode))

\* Base::removeNodes(ModelNodes &)
Base_removeNodes(resourceSet, newModelNodes) ==
    [resourceSet EXCEPT !.removeModelNodes = set_union(sort(newModelNodes), @)]

\* Base::removeProperties(AbstractProperties &)
Base_removeProperties(resourceSet, newProperties) ==
    [resourceSet EXCEPT !.removeProperties = set_union(sort(newProperties), @)]

\* RemoveLayerEnabled::collectProperties
RemoveLayerEnabled_collectProperties(model, nodes) ==
    collect(nodes,
            LAMBDA n : model[n].type = "Item" /\ model[n].detail = "layer.effect",
            LAMBDA n : <<100 * model[n].parent>>)

\* RemoveAliasExports::collectProperties
RemoveAliasExports_collectProperties(model, nodes) ==
    collect(nodes,
            LAMBDA n : model[n].type = "Item" /\ model[n].detail = "alias",
            LAMBDA n : <<100 + n>>)

\* RemoveDependencies::collectNodes: the sources of the dependencies whose
\* target is among the nodes.
RemoveDependencies_collectNodes(model, nodes) ==
    collect(nodeDependencies(model),
            LAMBDA d : \E i \in 1..Len(nodes) : nodes[i] = d \div 100,
            LAMBDA d : <<d % 100>>)

\* forEachAction(nodeActions, handleNodes(nodes)): CheckChildNodes, which
\* hands the children not yet removed to all actions again,
\* RemoveLayerEnabled, RemoveAliasExports and RemoveDependencies.
RECURSIVE handleNodes(_, _, _)
handleNodes(model, resourceSet, nodes) ==
    LET childNodes == sort(collect(nodes, LAMBDA n : TRUE,
                                   LAMBDA n : directSubModelNodes(model, n)))
        addedModelNodes == set_difference(childNodes, resourceSet.removeModelNodes)
        checked == IF addedModelNodes = <<>> THEN resourceSet
                   ELSE handleNodes(model, resourceSet, addedModelNodes)
        layers == RemoveLayerEnabled_collectProperties(model, nodes)
        withLayers == IF layers = <<>> THEN checked
                      ELSE Base_removeProperties(checked, layers)
        aliases == RemoveAliasExports_collectProperties(model, nodes)
        withAliases == IF aliases = <<>> THEN withLayers
                       ELSE Base_removeProperties(withLayers, aliases)
        sources == RemoveDependencies_collectNodes(model, nodes)
    IN IF sources = <<>> THEN withAliases ELSE Base_removeNodes(withAliases, sources)

\* ModelResourceManagement::removeNode
removeNode(model, node) ==
    LET resourceSet == Base_removeNodes([removeModelNodes |-> <<>>, removeProperties |-> <<>>],
                                        <<node>>)
    IN handleNodes(model, resourceSet, <<node>>)

\* A model: every node but the root has a parent with a smaller index,
\* state names differ, a parent has at most one layer.effect.
WellFormedModel(model) ==
    /\ \A n \in 2..Len(model) : model[n].parent < n
    /\ \A n \in 2..Len(model) :
          model[n].type = "PropertyChanges" => model[n].target <= Len(model)
    /\ \A m, n \in 2..Len(model) :
          (m # n /\ model[m].type = "State" /\ model[n].type = "State")
              => model[m].name # model[n].name
    /\ \A m, n \in 2..Len(model) :
          (m # n /\ model[m].type = "Item" /\ model[n].type = "Item"
                 /\ model[m].detail = "layer.effect" /\ model[n].detail = "layer.effect")
              => model[m].parent # model[n].parent

ModelResourceInit ==
    /\ \E size \in 1..MaxNodes :
          \E others \in [2..size -> NodeShapes] :
              /\ mrModel = [n \in 1..size |-> IF n = 1 THEN RootNode ELSE others[n]]
              /\ WellFormedModel(mrModel)
              /\ mrNode \in 1..size
    /\ mrResult = NoInput
    /\ mrOthersIdle

ModelResourceRemoveNode ==
    /\ mrResult = NoInput
    /\ mrResult' = removeNode(mrModel, mrNode)
    /\ UNCHANGED <<mrModel, mrNode, mrOthers>>

ModelResourceNext == ModelResourceRemoveNode

SpecModelResource == ModelResourceInit /\ [][ModelResourceNext]_vars

StrictlyAscending(list) == \A i \in 1..Len(list) - 1 : list[i] < list[i + 1]

\* C30: removeNode terminates for every model and returns a resource set
\* whose removeModelNodes and removeProperties are strictly ascending and
\* whose removeModelNodes contains the node passed in, also when a
\* dependent node is collected more than once in one handler call.
C30_ResourceSetStrictlyAscending ==
    mrResult # NoInput =>
        /\ StrictlyAscending(mrResult.removeModelNodes)
        /\ StrictlyAscending(mrResult.removeProperties)
        /\ \E i \in 1..Len(mrResult.removeModelNodes) : mrResult.removeModelNodes[i] = mrNode

\* C30, what the code does: the lists are ascending, removeProperties
\* strictly, and removeModelNodes contains the node passed in.
C30_ResourceSetAscending ==
    mrResult # NoInput =>
        /\ \A i \in 1..Len(mrResult.removeModelNodes) - 1 :
              mrResult.removeModelNodes[i] <= mrResult.removeModelNodes[i + 1]
        /\ StrictlyAscending(mrResult.removeProperties)
        /\ \E i \in 1..Len(mrResult.removeModelNodes) : mrResult.removeModelNodes[i] = mrNode

\* C30: the parent of two states is removed and a transition elsewhere
\* names both: the transition is listed twice.
C30_WitnessTransitionTwice ==
    /\ mrResult # NoInput
    /\ \E i \in 1..Len(mrResult.removeModelNodes) - 1 :
          /\ mrResult.removeModelNodes[i] = mrResult.removeModelNodes[i + 1]
          /\ mrModel[mrResult.removeModelNodes[i]].type = "Transition"
          /\ mrModel[mrResult.removeModelNodes[i]].from
                 # mrModel[mrResult.removeModelNodes[i]].to

=============================================================================
